---------------------------- MODULE Spec2Model ----------------------------
(***************************************************************************)
(* A model of the health-metrics core of CHMS:                             *)
(*   chms/utils/health_calculations.py        (per-visit classification)   *)
(*   chms/chms/doctype/visit/visit.py          (Visit document methods)    *)
(*   chms/chms/doctype/corporate_screening/corporate_screening.py          *)
(*   chms/api/dashboard_api.py                 (cross-screening summary)   *)
(*                                                                         *)
(* Representation of Python values.  A dictionary entry or document field  *)
(* is one of                                                               *)
(*   Absent   the key is not in the dictionary                             *)
(*   None     the key is there and holds None (SQL NULL)                   *)
(*   Val(x)   the key holds x                                              *)
(* Numbers are integers.  A BMI is held in hundredths (bmi 32.0 is 3200,   *)
(* the two decimals calculate_bmi rounds to), a percentage in tenths       *)
(* (26.7 is 267, the one decimal every round(..., 1) keeps), sleep_hours   *)
(* in tenths of an hour (7 hours is 70), a waist in whole inches.          *)
(***************************************************************************)
EXTENDS Integers, Sequences, FiniteSets, Bags

VARIABLES
    visit_data,     \* the dictionary handed to the health_calculations functions,
                    \* and the fields of the Visit document the methods read
    risk,           \* outcome of calculate_cardiovascular_risk_score(visit_data)
    bp_util,        \* outcome of health_calculations.get_blood_pressure_category
    bp_visit,       \* outcome of Visit.get_blood_pressure_category
    visits,         \* rows get_screening_visits() returns for the screening (a bag)
    screening,      \* fields of the CorporateScreening document
    screenings,     \* rows of completed screenings get_corporate_wellness_summary reads
    summary,        \* outcome of get_corporate_wellness_summary()
    window,         \* submitted visits of the dashboard's date range (a bag)
    results         \* outcome of each of the other calls, by the name of the function

vars ==
    <<visit_data, risk, bp_util, bp_visit, visits, screening, screenings, summary, window,
      results>>

-----------------------------------------------------------------------------
(* Python values *)

Absent == [tag |-> "absent"]
None == [tag |-> "None"]
Val(x) == [tag |-> "val", v |-> x]

\* Outcome slots: a function not called yet, a call that raised, a returned value.
NotCalled == [tag |-> "not called"]
Raised(e) == [tag |-> "raised", error |-> e]
Returned(x) == [tag |-> "returned", value |-> x]

IsVal(x) == x.tag = "val"

\* d.get(k): None when the key is missing
Get(d, k) == IF d[k] = Absent THEN None ELSE d[k]

\* d.get(k, default)
GetDefault(d, k, default) == IF d[k] = Absent THEN Val(default) ELSE d[k]

\* bool(x) of None or a number
Truthy(x) == IsVal(x) /\ x.v # 0

\* bool(x) of None or a string
TruthyStr(x) == IsVal(x) /\ x.v # ""

FieldNames ==
    {"age", "gender", "bmi", "blood_pressure_systolic", "blood_pressure_diastolic",
     "blood_glucose", "smoking_habits", "exercise_frequency", "waist_circumference",
     "alcohol_consumption", "sleep_hours", "stress_level", "height", "weight",
     "visit_date", "heart_rate", "temperature", "patient", "patient_name",
     "created_by_user"}

NoData == [f \in FieldNames |-> Absent]

\* The functions whose outcome is kept in results.
Calls ==
    {"get_bmi_category", "Visit.get_bmi_category", "get_glucose_category",
     "Visit.get_glucose_category", "calculate_metabolic_syndrome_criteria",
     "generate_health_recommendations", "calculate_wellness_wheel_scores",
     "Clinic.get_health_metrics_summary", "generate_executive_summary", "Visit.before_save"}

NoResults == [c \in Calls |-> NotCalled]

\* the call c returns or raises outcome; nothing else changes
Call(c, outcome) ==
    /\ results[c] = NotCalled
    /\ results' = [results EXCEPT ![c] = outcome]
    /\ UNCHANGED <<visit_data, risk, bp_util, bp_visit, visits, screening, screenings,
                   summary, window>>

-----------------------------------------------------------------------------
(* health_calculations.calculate_cardiovascular_risk_score *)

\* risk_score += points; risk_factors.append(factor)
AddRisk(acc, points, factor) ==
    [risk_score |-> acc.risk_score + points,
     risk_factors |-> Append(acc.risk_factors, factor)]

\* age = visit_data.get('age', 0); if age >= 45: ...
\* ("Age >=45" stands for the source's factor name, which uses the one-character sign)
AgeRisk(acc, d) ==
    LET age == GetDefault(d, "age", 0)
    IN  IF age.v >= 45 THEN AddRisk(acc, 1, "Age >=45") ELSE acc

\* None >= 45 is a TypeError in Python 3: the comparison is reached for every
\* record, the default 0 is used only when the key is missing.
AgeRaises(d) == ~IsVal(GetDefault(d, "age", 0))

BmiRisk(acc, d) ==
    LET bmi == Get(d, "bmi")
    IN  IF Truthy(bmi) /\ bmi.v >= 3000 THEN AddRisk(acc, 2, "Obesity")
        ELSE IF Truthy(bmi) /\ bmi.v >= 2500 THEN AddRisk(acc, 1, "Overweight")
        ELSE acc

BloodPressureRisk(acc, d) ==
    LET systolic == Get(d, "blood_pressure_systolic")
        diastolic == Get(d, "blood_pressure_diastolic")
    IN  IF Truthy(systolic) /\ Truthy(diastolic)
        THEN IF systolic.v >= 140 \/ diastolic.v >= 90
             THEN AddRisk(acc, 2, "Hypertension")
             ELSE IF systolic.v >= 130 \/ diastolic.v >= 80
                  THEN AddRisk(acc, 1, "Elevated BP")
                  ELSE acc
        ELSE acc

\* A slip that takes the diabetes threshold (140) of the cohort statistics.
GlucoseRisk_Threshold140(acc, d) ==
    LET glucose == Get(d, "blood_glucose")
    IN  IF Truthy(glucose)
        THEN IF glucose.v >= 140 THEN AddRisk(acc, 2, "Diabetes")
             ELSE IF glucose.v >= 100 THEN AddRisk(acc, 1, "Prediabetes")
             ELSE acc
        ELSE acc

GlucoseRisk(acc, d) ==
    LET glucose == Get(d, "blood_glucose")
    IN  IF Truthy(glucose)
        THEN IF glucose.v >= 126 THEN AddRisk(acc, 2, "Diabetes")
             ELSE IF glucose.v >= 100 THEN AddRisk(acc, 1, "Prediabetes")
             ELSE acc
        ELSE acc

SmokingRisk(acc, d) ==
    LET smoking == Get(d, "smoking_habits")
    IN  IF smoking \in {Val("Daily"), Val("Occasionally")}
        THEN AddRisk(acc, 2, "Smoking")
        ELSE acc

ActivityRisk(acc, d) ==
    LET exercise == Get(d, "exercise_frequency")
    IN  IF exercise \in {Val("None"), Val("Rarely")}
        THEN AddRisk(acc, 1, "Physical Inactivity")
        ELSE acc

RiskLevel(risk_score) ==
    IF risk_score <= 2 THEN "Low Risk"
    ELSE IF risk_score <= 4 THEN "Moderate Risk"
    ELSE IF risk_score <= 6 THEN "High Risk"
    ELSE "Very High Risk"

calculate_cardiovascular_risk_score(d) ==
    IF AgeRaises(d) THEN Raised("TypeError")
    ELSE
      LET a0 == [risk_score |-> 0, risk_factors |-> <<>>]
          a1 == AgeRisk(a0, d)
          a2 == BmiRisk(a1, d)
          a3 == BloodPressureRisk(a2, d)
          a4 == GlucoseRisk(a3, d)
          a5 == SmokingRisk(a4, d)
          a6 == ActivityRisk(a5, d)
      IN  Returned([risk_score |-> a6.risk_score,
                    risk_level |-> RiskLevel(a6.risk_score),
                    risk_factors |-> a6.risk_factors])

\* The records the risk score is computed for: every field missing, null or
\* measured, measured values on both sides of each threshold (0 is the value
\* of an integer field left empty).
RiskRecords ==
    {[NoData EXCEPT !["age"] = a, !["bmi"] = b,
                    !["blood_pressure_systolic"] = s,
                    !["blood_pressure_diastolic"] = di,
                    !["blood_glucose"] = g, !["smoking_habits"] = sm,
                    !["exercise_frequency"] = e] :
        a \in {Absent, None, Val(44), Val(45), Val(50)},
        b \in {Absent, None, Val(2400), Val(2500), Val(3000), Val(3200)},
        s \in {Absent, None, Val(0), Val(130), Val(140), Val(145)},
        di \in {Absent, None, Val(70), Val(80), Val(90), Val(95)},
        g \in {Absent, None, Val(90), Val(100), Val(126), Val(130)},
        sm \in {Absent, None, Val("Never"), Val("Occasionally"), Val("Daily")},
        e \in {Absent, None, Val("None"), Val("Rarely"), Val("3-4 times per week")}}

\* Idle values of the variables a specification does not use.
IdleVisit ==
    /\ visit_data = NoData /\ risk = NotCalled /\ bp_util = NotCalled /\ bp_visit = NotCalled
    /\ results = NoResults
IdleScreening == visits = EmptyBag /\ screening = <<>>
IdleDashboard == screenings = <<>> /\ summary = NotCalled
IdleWindow == window = EmptyBag

InitRisk ==
    /\ visit_data \in RiskRecords
    /\ risk = NotCalled
    /\ bp_util = NotCalled /\ bp_visit = NotCalled /\ results = NoResults
    /\ IdleScreening /\ IdleDashboard /\ IdleWindow

CalculateCardiovascularRiskScore ==
    /\ risk = NotCalled
    /\ risk' = calculate_cardiovascular_risk_score(visit_data)
    /\ UNCHANGED <<visit_data, bp_util, bp_visit, visits, screening, screenings, summary,
                   window, results>>

NextRisk == CalculateCardiovascularRiskScore

SpecRisk == InitRisk /\ [][NextRisk]_vars

-----------------------------------------------------------------------------
(* get_blood_pressure_category: the utility function and the Visit method *)

\* A slip that returns the two stage labels of lines 40 and 42 swapped.
get_blood_pressure_category_StagesSwapped(systolic, diastolic) ==
    IF ~Truthy(systolic) \/ ~Truthy(diastolic) THEN None
    ELSE IF systolic.v < 120 /\ diastolic.v < 80 THEN Val("Normal")
    ELSE IF systolic.v < 130 /\ diastolic.v < 80 THEN Val("Elevated")
    ELSE IF systolic.v < 140 \/ diastolic.v < 90 THEN Val("High Blood Pressure Stage 2")
    ELSE IF systolic.v < 180 \/ diastolic.v < 120 THEN Val("High Blood Pressure Stage 1")
    ELSE Val("Hypertensive Crisis")

\* health_calculations.get_blood_pressure_category(systolic, diastolic)
get_blood_pressure_category(systolic, diastolic) ==
    IF ~Truthy(systolic) \/ ~Truthy(diastolic) THEN None
    ELSE IF systolic.v < 120 /\ diastolic.v < 80 THEN Val("Normal")
    ELSE IF systolic.v < 130 /\ diastolic.v < 80 THEN Val("Elevated")
    ELSE IF systolic.v < 140 \/ diastolic.v < 90 THEN Val("High Blood Pressure Stage 1")
    ELSE IF systolic.v < 180 \/ diastolic.v < 120 THEN Val("High Blood Pressure Stage 2")
    ELSE Val("Hypertensive Crisis")

\* A slip that joins the two conditions of the Elevated rule with "or".
Visit_get_blood_pressure_category_ElevatedOr(self) ==
    IF ~(Truthy(self["blood_pressure_systolic"]) /\ Truthy(self["blood_pressure_diastolic"]))
    THEN None
    ELSE
      LET systolic == self["blood_pressure_systolic"].v
          diastolic == self["blood_pressure_diastolic"].v
      IN  IF systolic < 120 /\ diastolic < 80 THEN Val("Normal")
          ELSE IF systolic < 130 \/ diastolic < 80 THEN Val("Elevated")
          ELSE IF systolic < 140 \/ diastolic < 90 THEN Val("High Blood Pressure Stage 1")
          ELSE IF systolic < 180 \/ diastolic < 120 THEN Val("High Blood Pressure Stage 2")
          ELSE Val("Hypertensive Crisis")

\* Visit.get_blood_pressure_category(self)
Visit_get_blood_pressure_category(self) ==
    IF ~(Truthy(self["blood_pressure_systolic"]) /\ Truthy(self["blood_pressure_diastolic"]))
    THEN None
    ELSE
      LET systolic == self["blood_pressure_systolic"].v
          diastolic == self["blood_pressure_diastolic"].v
      IN  IF systolic < 120 /\ diastolic < 80 THEN Val("Normal")
          ELSE IF systolic < 130 /\ diastolic < 80 THEN Val("Elevated")
          ELSE IF systolic < 140 \/ diastolic < 90 THEN Val("High Blood Pressure Stage 1")
          ELSE IF systolic < 180 \/ diastolic < 120 THEN Val("High Blood Pressure Stage 2")
          ELSE Val("Hypertensive Crisis")

\* Readings on both sides of every threshold; None is a value not measured,
\* 0 an integer field left empty.
SystolicReadings ==
    {None, Val(0), Val(110), Val(119), Val(120), Val(129), Val(130), Val(139), Val(140),
     Val(179), Val(180), Val(200)}

DiastolicReadings ==
    {None, Val(0), Val(70), Val(79), Val(80), Val(89), Val(90), Val(119), Val(120), Val(130)}

PressureRecords ==
    {[NoData EXCEPT !["blood_pressure_systolic"] = s, !["blood_pressure_diastolic"] = di] :
        s \in SystolicReadings, di \in DiastolicReadings}

InitPressure ==
    /\ visit_data \in PressureRecords
    /\ risk = NotCalled
    /\ bp_util = NotCalled /\ bp_visit = NotCalled /\ results = NoResults
    /\ IdleScreening /\ IdleDashboard /\ IdleWindow

\* a caller passes the visit's two readings to the utility function
GetBloodPressureCategory ==
    /\ bp_util = NotCalled
    /\ bp_util' = Returned(get_blood_pressure_category(
                               visit_data["blood_pressure_systolic"],
                               visit_data["blood_pressure_diastolic"]))
    /\ UNCHANGED <<visit_data, risk, bp_visit, visits, screening, screenings, summary,
                   window, results>>

VisitGetBloodPressureCategory ==
    /\ bp_visit = NotCalled
    /\ bp_visit' = Returned(Visit_get_blood_pressure_category(visit_data))
    /\ UNCHANGED <<visit_data, risk, bp_util, visits, screening, screenings, summary,
                   window, results>>

NextPressure == GetBloodPressureCategory \/ VisitGetBloodPressureCategory

SpecPressure == InitPressure /\ [][NextPressure]_vars

-----------------------------------------------------------------------------
(* CorporateScreening.calculate_statistics *)

\* round(x, 1) of x = num / den, in tenths: the nearest integer to num / den,
\* an exact tie going to the even one (Python rounds a tie it can represent
\* exactly that way).
Round1(num, den) ==
    LET q == num \div den
        r == num % den
    IN  IF 2 * r < den THEN q
        ELSE IF 2 * r > den THEN q + 1
        ELSE IF q % 2 = 0 THEN q ELSE q + 1

\* round((count / total) * 100, 1)
Percentage(count, total) == Round1(1000 * count, total)

\* The rows of a query are a bag: the SELECT has no ORDER BY, and the statistics
\* only count rows.
\* len(visits)
Size(rows) == BagCardinality(rows)

\* len([v for v in visits if P(v)])
Count(rows, P(_)) == BagCardinality([v \in {x \in BagToSet(rows) : P(x)} |-> rows[v]])

IsObese(v) == Truthy(v["bmi"]) /\ v["bmi"].v >= 3000

IsHypertensive(v) ==
    /\ Truthy(v["blood_pressure_systolic"])
    /\ Truthy(v["blood_pressure_diastolic"])
    /\ (v["blood_pressure_systolic"].v >= 140 \/ v["blood_pressure_diastolic"].v >= 90)

IsDiabetic(v) == Truthy(v["blood_glucose"]) /\ v["blood_glucose"].v >= 140

IsSmoker(v) ==
    TruthyStr(v["smoking_habits"]) /\ v["smoking_habits"].v \in {"Occasionally", "Daily"}

HasBmi(v) == Truthy(v["bmi"])
HasBp(v) == Truthy(v["blood_pressure_systolic"])
HasGlucose(v) == Truthy(v["blood_glucose"])
HasSmokingData(v) == TruthyStr(v["smoking_habits"])

\* A slip that divides by the cohort size.
ObesityPrevalence_OverCohort(self, rows) ==
    LET total_with_bmi == Count(rows, HasBmi)
    IN  IF total_with_bmi > 0
        THEN [self EXCEPT !.obesity_prevalence =
                              Val(Percentage(Count(rows, IsObese), Size(rows)))]
        ELSE self

\* lines 66-69
ObesityPrevalence(self, rows) ==
    LET total_with_bmi == Count(rows, HasBmi)
    IN  IF total_with_bmi > 0
        THEN [self EXCEPT !.obesity_prevalence =
                              Val(Percentage(Count(rows, IsObese), total_with_bmi))]
        ELSE self

\* lines 71-76
HypertensionPrevalence(self, rows) ==
    LET total_with_bp == Count(rows, HasBp)
    IN  IF total_with_bp > 0
        THEN [self EXCEPT !.hypertension_prevalence =
                              Val(Percentage(Count(rows, IsHypertensive), total_with_bp))]
        ELSE self

\* lines 78-81
DiabetesPrevalence(self, rows) ==
    LET total_with_glucose == Count(rows, HasGlucose)
    IN  IF total_with_glucose > 0
        THEN [self EXCEPT !.diabetes_prevalence =
                              Val(Percentage(Count(rows, IsDiabetic), total_with_glucose))]
        ELSE self

\* lines 83-88
SmokingPrevalence(self, rows) ==
    LET total_with_smoking_data == Count(rows, HasSmokingData)
    IN  IF total_with_smoking_data > 0
        THEN [self EXCEPT !.smoking_prevalence =
                              Val(Percentage(Count(rows, IsSmoker), total_with_smoking_data))]
        ELSE self

\* the per-visit risk_factors counter of lines 93-102
VisitRiskFactors(v) ==
    (IF IsObese(v) THEN 1 ELSE 0) + (IF IsHypertensive(v) THEN 1 ELSE 0)
    + (IF IsDiabetic(v) THEN 1 ELSE 0) + (IF IsSmoker(v) THEN 1 ELSE 0)

\* A slip that asks for three factors.
IsHighRisk_ThreeFactors(v) == VisitRiskFactors(v) >= 3

IsHighRisk(v) == VisitRiskFactors(v) >= 2

\* lines 90-107
HighRiskParticipants(self, rows) ==
    [self EXCEPT !.high_risk_participants = Val(Count(rows, IsHighRisk))]

calculate_health_prevalence(self, rows) ==
    HighRiskParticipants(
        SmokingPrevalence(
            DiabetesPrevalence(
                HypertensionPrevalence(
                    ObesityPrevalence(self, rows), rows), rows), rows), rows)

IsMale(v) == v["gender"] = Val("Male")
IsFemale(v) == v["gender"] = Val("Female")
InAgeGroup18To30(v) == Truthy(v["age"]) /\ 18 <= v["age"].v /\ v["age"].v <= 30
InAgeGroup31To50(v) == Truthy(v["age"]) /\ 31 <= v["age"].v /\ v["age"].v <= 50
InAgeGroup51Plus(v) == Truthy(v["age"]) /\ v["age"].v >= 51

\* lines 43-51
Demographics(self, rows) ==
    [self EXCEPT !.total_participants = Val(Size(rows)),
                 !.male_participants = Val(Count(rows, IsMale)),
                 !.female_participants = Val(Count(rows, IsFemale)),
                 !.age_group_18_30 = Val(Count(rows, InAgeGroup18To30)),
                 !.age_group_31_50 = Val(Count(rows, InAgeGroup31To50)),
                 !.age_group_51_plus = Val(Count(rows, InAgeGroup51Plus))]

\* lines 56-58: flt(cost_per_participant) * total_participants
TotalCost(self) ==
    IF Truthy(self.cost_per_participant) /\ Truthy(self.total_participants)
    THEN [self EXCEPT !.total_cost =
                          Val(self.cost_per_participant.v * self.total_participants.v)]
    ELSE self

\* lines 39-41: an empty cohort sets total_participants and returns
EmptyCohort(self) == [self EXCEPT !.total_participants = Val(0)]

calculate_statistics(self, rows) ==
    IF rows = EmptyBag THEN EmptyCohort(self)
    ELSE TotalCost(calculate_health_prevalence(Demographics(self, rows), rows))

\* A row of get_screening_visits(): every selected column is a key of the row,
\* NULL columns hold None.
Row(gender, age, bmi, systolic, diastolic, glucose, smoking) ==
    [NoData EXCEPT !["gender"] = gender, !["age"] = age, !["bmi"] = bmi,
                   !["blood_pressure_systolic"] = systolic,
                   !["blood_pressure_diastolic"] = diastolic,
                   !["blood_glucose"] = glucose, !["smoking_habits"] = smoking,
                   !["exercise_frequency"] = None]

\* The visits a cohort is drawn from: every factor met at its threshold, every
\* value just under its threshold, a systolic with no diastolic, a visit with
\* only some fields measured (and a diastolic with no systolic), and a visit
\* with nothing measured.
VisitRows ==
    {Row(Val("Male"), Val(30), Val(3000), Val(140), Val(90), Val(140), Val("Occasionally")),
     Row(Val("Female"), Val(31), Val(2999), Val(139), Val(89), Val(139), Val("Former Smoker")),
     Row(Val("Male"), Val(60), None, Val(150), None, None, None),
     Row(Val("Female"), Val(51), Val(3200), None, Val(95), None, Val("Daily")),
     Row(None, None, None, None, None, None, None)}

\* The largest cohort.
MaxVisits == 3

ScreeningFields ==
    {"total_participants", "male_participants", "female_participants",
     "age_group_18_30", "age_group_31_50", "age_group_51_plus",
     "obesity_prevalence", "hypertension_prevalence", "diabetes_prevalence",
     "smoking_prevalence", "high_risk_participants", "cost_per_participant", "total_cost",
     "status", "executive_summary"}

\* A new document: no field set.
NewScreening == [f \in ScreeningFields |-> None]

InitScreening ==
    /\ visits = EmptyBag
    /\ \E cost \in {None, Val(25)} :
           screening = [doc |-> [NewScreening EXCEPT !.cost_per_participant = cost],
                        stats_current |-> FALSE]
    /\ IdleVisit /\ IdleDashboard /\ IdleWindow

\* A visit of one of the company's patients is submitted inside the period.
SubmitVisit ==
    /\ Size(visits) < MaxVisits
    /\ \E v \in VisitRows : visits' = visits (+) SetToBag({v})
    /\ screening' = [screening EXCEPT !.stats_current = FALSE]
    /\ UNCHANGED <<visit_data, risk, bp_util, bp_visit, screenings, summary, window, results>>

\* A submitted visit is cancelled (docstatus 2), or falls out of the period.
CancelVisit ==
    /\ \E v \in BagToSet(visits) : visits' = visits (-) SetToBag({v})
    /\ screening' = [screening EXCEPT !.stats_current = FALSE]
    /\ UNCHANGED <<visit_data, risk, bp_util, bp_visit, screenings, summary, window, results>>

\* before_save / calculate_final_statistics: self.calculate_statistics()
CalculateStatistics ==
    /\ screening' = [doc |-> calculate_statistics(screening.doc, visits),
                     stats_current |-> TRUE]
    /\ UNCHANGED <<visit_data, risk, bp_util, bp_visit, visits, screenings, summary,
                   window, results>>

NextScreening == SubmitVisit \/ CancelVisit \/ CalculateStatistics

SpecScreening == InitScreening /\ [][NextScreening]_vars

-----------------------------------------------------------------------------
(* Clinic.get_health_metrics_summary, on the visits a screening also reads *)

\* SQL comparisons: a NULL operand makes the comparison unknown, and COUNT(CASE
\* WHEN ... THEN 1 END) counts the rows where the condition is true.
SqlGe(x, n) == IsVal(x) /\ x.v >= n

\* bmi >= 30
SqlObese(v) == SqlGe(v["bmi"], 3000)

\* blood_pressure_systolic >= 140 OR blood_pressure_diastolic >= 90: true when
\* either side is true, whatever the other is
SqlHypertensive(v) ==
    SqlGe(v["blood_pressure_systolic"], 140) \/ SqlGe(v["blood_pressure_diastolic"], 90)

\* blood_glucose >= 126
SqlDiabetic(v) == SqlGe(v["blood_glucose"], 126)

SqlHasBmi(v) == IsVal(v["bmi"])
SqlHasBothPressures(v) ==
    IsVal(v["blood_pressure_systolic"]) /\ IsVal(v["blood_pressure_diastolic"])
SqlHasGlucose(v) == IsVal(v["blood_glucose"])

\* COUNT(...) * 100.0 / COUNT(...): a decimal with five places, in units of
\* 0.00001, rounded half up; NULL when the divisor is 0
SqlRate(count, total) ==
    IF total = 0 THEN None
    ELSE Val((2 * 10000000 * count + total) \div (2 * total))

RECURSIVE SqlSum(_, _)
\* the sum of column f over the rows where it is not NULL
SqlSum(rows, f) ==
    IF BagToSet(rows) = {} THEN 0
    ELSE LET v == CHOOSE x \in BagToSet(rows) : TRUE
             rest == [x \in BagToSet(rows) \ {v} |-> rows[x]]
         IN  (IF IsVal(v[f]) THEN rows[v] * v[f].v ELSE 0) + SqlSum(rest, f)

SqlNonNull(rows, f) == BagCardinality([v \in {x \in BagToSet(rows) : IsVal(x[f])} |-> rows[v]])

\* AVG(f): the quotient, kept as the fraction sum / count; NULL over no value
SqlAvg(rows, f) ==
    IF SqlNonNull(rows, f) = 0 THEN None
    ELSE Val([sum |-> SqlSum(rows, f), count |-> SqlNonNull(rows, f)])

\* Clinic.get_health_metrics_summary(self), rows the submitted visits of the
\* clinic; an aggregate SELECT without GROUP BY always yields one row
Clinic_get_health_metrics_summary(rows) ==
    [avg_bmi |-> SqlAvg(rows, "bmi"),
     avg_systolic |-> SqlAvg(rows, "blood_pressure_systolic"),
     avg_diastolic |-> SqlAvg(rows, "blood_pressure_diastolic"),
     avg_glucose |-> SqlAvg(rows, "blood_glucose"),
     obesity_rate |-> SqlRate(Count(rows, SqlObese), Count(rows, SqlHasBmi)),
     hypertension_rate |->
         SqlRate(Count(rows, SqlHypertensive), Count(rows, SqlHasBothPressures)),
     diabetes_rate |-> SqlRate(Count(rows, SqlDiabetic), Count(rows, SqlHasGlucose))]

RECURSIVE CohortsUpTo(_)
\* the cohorts of at most n visits
CohortsUpTo(n) ==
    IF n = 0 THEN {EmptyBag}
    ELSE LET smaller == CohortsUpTo(n - 1)
         IN  smaller \cup {c (+) SetToBag({v}) : c \in smaller, v \in VisitRows}

\* The visits of one company in one period, all recorded at one clinic.
InitClinic ==
    /\ visits \in CohortsUpTo(MaxVisits)
    /\ \E cost \in {None, Val(25)} :
           screening = [doc |-> [NewScreening EXCEPT !.cost_per_participant = cost],
                        stats_current |-> FALSE]
    /\ IdleVisit /\ IdleDashboard /\ IdleWindow

GetHealthMetricsSummary ==
    Call("Clinic.get_health_metrics_summary",
         Returned(Clinic_get_health_metrics_summary(visits)))

NextClinic == CalculateStatistics \/ GetHealthMetricsSummary

SpecClinic == InitClinic /\ [][NextClinic]_vars

-----------------------------------------------------------------------------
(* dashboard_api.get_corporate_wellness_summary *)

Metrics ==
    {"obesity_prevalence", "hypertension_prevalence", "diabetes_prevalence",
     "smoking_prevalence"}

\* sum(s.get("total_participants", 0) for s in screenings), line 137: every row
\* of the query has the key, so a NULL column is added as None (a TypeError).
RECURSIVE SumParticipants(_)
SumParticipants(rows) ==
    IF rows = <<>> THEN 0
    ELSE Head(rows)["total_participants"].v + SumParticipants(Tail(rows))

\* lines 146-149: total_weight
RECURSIVE TotalWeight(_)
TotalWeight(rows) ==
    IF rows = <<>> THEN 0
    ELSE LET participants == Head(rows)["total_participants"].v
         IN  (IF participants > 0 THEN participants ELSE 0) + TotalWeight(Tail(rows))

\* lines 146-153: weighted_<metric>, in tenths of a percent times participants
RECURSIVE WeightedSum(_, _)
WeightedSum(rows, metric) ==
    IF rows = <<>> THEN 0
    ELSE LET participants == Head(rows)["total_participants"].v
         IN  (IF participants > 0 THEN Head(rows)[metric].v * participants ELSE 0)
             + WeightedSum(Tail(rows), metric)

\* A slip that averages the screenings' rates without their weights.
WeightedAverage_Unweighted(rows, metric) ==
    LET counted == {i \in 1..Len(rows) : rows[i]["total_participants"].v > 0}
        RECURSIVE Sum(_)
        Sum(S) == IF S = {} THEN 0
                  ELSE LET i == CHOOSE x \in S : TRUE
                       IN  rows[i][metric].v + Sum(S \ {i})
    IN  Round1(Sum(counted), Cardinality(counted))

\* lines 158-161: round(weighted_<metric> / total_weight, 1)
WeightedAverage(rows, metric) == Round1(WeightedSum(rows, metric), TotalWeight(rows))

\* The arithmetic on a None raises TypeError: None in sum() or in
\* "participants > 0", and None * participants for a counted screening.
SummaryRaises(rows) ==
    \E i \in 1..Len(rows) :
        \/ ~IsVal(rows[i]["total_participants"])
        \/ /\ rows[i]["total_participants"].v > 0
           /\ \E m \in Metrics : ~IsVal(rows[i][m])

get_corporate_wellness_summary(rows) ==
    IF rows = <<>> THEN Returned([message |-> "No completed corporate screenings found"])
    ELSE IF SummaryRaises(rows) THEN Raised("TypeError")
    ELSE Returned(
           [total_screenings |-> Len(rows),
            total_participants |-> SumParticipants(rows),
            health_metrics |->
                IF TotalWeight(rows) > 0
                THEN [m \in Metrics |-> WeightedAverage(rows, m)]
                ELSE <<>>])

\* The rows of completed screenings: a participant count and the four rates a
\* screening stores.  The count and three of the rates are NULL or a number;
\* the diabetes rate is kept to one value, the four rates being summed by the
\* same statement (lines 150-153).
ScreeningRows ==
    [total_participants : {None, Val(0), Val(50), Val(100)},
     obesity_prevalence : {None, Val(200), Val(400)},
     hypertension_prevalence : {None, Val(400)},
     diabetes_prevalence : {Val(200)},
     smoking_prevalence : {None, Val(200)}]

\* The longest list of completed screenings.
MaxScreenings == 2

RECURSIVE ListsUpTo(_, _)
ListsUpTo(S, n) ==
    IF n = 0 THEN {<<>>}
    ELSE LET shorter == ListsUpTo(S, n - 1)
         IN  shorter \cup {Append(l, x) : l \in {y \in shorter : Len(y) = n - 1}, x \in S}

InitDashboard ==
    /\ screenings \in ListsUpTo(ScreeningRows, MaxScreenings)
    /\ summary = NotCalled
    /\ IdleVisit /\ IdleScreening /\ IdleWindow

GetCorporateWellnessSummary ==
    /\ summary = NotCalled
    /\ summary' = get_corporate_wellness_summary(screenings)
    /\ UNCHANGED <<visit_data, risk, bp_util, bp_visit, visits, screening, screenings,
                   window, results>>

NextDashboard == GetCorporateWellnessSummary

SpecDashboard == InitDashboard /\ [][NextDashboard]_vars

-----------------------------------------------------------------------------
(* CorporateScreening.generate_executive_summary, run by on_submit *)

\* One element of summary_points: the sentence by the name of its statistic,
\* the numbers formatted into it, and the recommendations joined into it.
\* executive_summary is the list of sentences (" ".join keeps their order).
Sentence(name, values, recommendations) ==
    [sentence |-> name, values |-> values, recommendations |-> recommendations]

\* A slip that recommends at the threshold itself.
ScreeningRecommendations_AtThreshold(self) ==
    (IF Truthy(self.obesity_prevalence) /\ self.obesity_prevalence.v >= 250
     THEN <<"Implement weight management programs and nutritional counseling.">> ELSE <<>>)
    \o (IF Truthy(self.hypertension_prevalence) /\ self.hypertension_prevalence.v >= 200
        THEN <<"Regular blood pressure monitoring and cardiovascular health initiatives.">>
        ELSE <<>>)
    \o (IF Truthy(self.smoking_prevalence) /\ self.smoking_prevalence.v >= 100
        THEN <<"Smoking cessation programs and stress management alternatives.">> ELSE <<>>)

\* lines 195-203; rates in tenths of a percent
ScreeningRecommendations(self) ==
    (IF Truthy(self.obesity_prevalence) /\ self.obesity_prevalence.v > 250
     THEN <<"Implement weight management programs and nutritional counseling.">> ELSE <<>>)
    \o (IF Truthy(self.hypertension_prevalence) /\ self.hypertension_prevalence.v > 200
        THEN <<"Regular blood pressure monitoring and cardiovascular health initiatives.">>
        ELSE <<>>)
    \o (IF Truthy(self.smoking_prevalence) /\ self.smoking_prevalence.v > 100
        THEN <<"Smoking cessation programs and stress management alternatives.">> ELSE <<>>)

\* lines 178-188: the sentence of a rate, under "if self.<rate>:"
RateSentence(self, name, rate) ==
    IF Truthy(self[rate]) THEN <<Sentence(name, <<self[rate].v>>, <<>>)>> ELSE <<>>

\* lines 166-206, rows not empty; the divisions are by the total_participants
\* calculate_statistics has just set to len(visits)
SummaryPoints(self) ==
    <<Sentence("participation", <<self.total_participants.v>>, <<>>)>>
    \o (IF Truthy(self.male_participants) /\ Truthy(self.female_participants)
        THEN <<Sentence("gender distribution",
                        <<Percentage(self.male_participants.v, self.total_participants.v),
                          Percentage(self.female_participants.v, self.total_participants.v)>>,
                        <<>>)>>
        ELSE <<>>)
    \o RateSentence(self, "obesity", "obesity_prevalence")
    \o RateSentence(self, "hypertension", "hypertension_prevalence")
    \o RateSentence(self, "diabetes", "diabetes_prevalence")
    \o RateSentence(self, "smoking", "smoking_prevalence")
    \o (IF Truthy(self.high_risk_participants)
        THEN <<Sentence("high risk",
                        <<Percentage(self.high_risk_participants.v, self.total_participants.v)>>,
                        <<>>)>>
        ELSE <<>>)
    \o (IF ScreeningRecommendations(self) # <<>>
        THEN <<Sentence("recommended interventions", <<>>, ScreeningRecommendations(self))>>
        ELSE <<>>)

\* CorporateScreening.generate_executive_summary(self), rows what
\* get_screening_visits() returns
CorporateScreening_generate_executive_summary(self, rows) ==
    IF rows = EmptyBag
    THEN [self EXCEPT !.executive_summary =
                          Val(<<Sentence("No screening data available for analysis.",
                                         <<>>, <<>>)>>)]
    ELSE [self EXCEPT !.executive_summary = Val(SummaryPoints(self))]

\* calculate_final_statistics: calculate_statistics, then the summary
calculate_final_statistics(self, rows) ==
    CorporateScreening_generate_executive_summary(calculate_statistics(self, rows), rows)

\* the bag with counts[r] copies of every row r
BagOf(counts) == [r \in {x \in DOMAIN counts : counts[x] > 0} |-> counts[r]]

\* Visits of a screening of forty employees, everything measured: healthy and
\* with all four values elevated.
Healthy == Row(Val("Female"), Val(40), Val(2200), Val(110), Val(70), Val(90), Val("Never"))
AllElevated == Row(Val("Male"), Val(60), Val(3500), Val(150), Val(95), Val(140), Val("Daily"))

\* The cohorts of forty whose rates are at, just under and just over 25 %
\* (10 of 40), 20 % (8 of 40) and 10 % (4 of 40), or 0; the cohort of forty
\* with nothing measured; the empty cohort.
SummaryCohorts ==
    LET ObeseOnly ==
            Row(Val("Male"), Val(25), Val(3000), Val(110), Val(70), Val(90), Val("Never"))
        HypertensiveOnly ==
            Row(Val("Female"), Val(55), Val(2200), Val(140), Val(70), Val(90), Val("Never"))
        SmokerOnly ==
            Row(Val("Female"), Val(35), Val(2200), Val(110), Val(70), Val(90), Val("Daily"))
        Unmeasured == Row(None, None, None, None, None, None, None)
    IN  {BagOf((Healthy :> 40 - o - h - sm - x) @@ (ObeseOnly :> o) @@ (HypertensiveOnly :> h)
               @@ (SmokerOnly :> sm) @@ (AllElevated :> x)) :
            o \in {0, 9, 10}, h \in {0, 7, 8}, sm \in {0, 3, 4}, x \in {0, 1}}
        \cup {BagOf(Unmeasured :> 40), EmptyBag}

-----------------------------------------------------------------------------
(* dashboard_api.generate_executive_summary *)

\* A submitted visit of the date range, with the columns the queries of
\* get_main_dashboard_data read for the summary.
WindowRow(patient, visit_type, bmi, systolic, diastolic) ==
    [patient |-> patient, visit_type |-> visit_type, bmi |-> bmi,
     blood_pressure_systolic |-> systolic, blood_pressure_diastolic |-> diastolic]

\* the number of rows of the bag for which test holds
CountRows(rows, test(_)) == BagCardinality([v \in {x \in BagToSet(rows) : test(x)} |-> rows[v]])

\* get_main_dashboard_data lines 21-30: the three counts the summary formats
VisitStats(rows) ==
    [total_visits |-> BagCardinality(rows),
     unique_patients |-> Cardinality({v.patient : v \in BagToSet(rows)}),
     screening_visits |-> CountRows(rows, LAMBDA v : v.visit_type = "Corporate Screening")]

\* the CASE of lines 44-49, on a bmi that is not NULL (hundredths)
SqlBmiCategory(bmi) ==
    IF bmi < 1850 THEN "Underweight"
    ELSE IF bmi < 2500 THEN "Healthy Weight"
    ELSE IF bmi < 3000 THEN "Overweight"
    ELSE "Obese"

\* the CASE of lines 61-65, on readings that are not NULL
SqlPressureCategory(systolic, diastolic) ==
    IF systolic >= 140 \/ diastolic >= 90 THEN "Hypertensive"
    ELSE IF systolic >= 120 \/ diastolic >= 80 THEN "Elevated"
    ELSE "Normal"

\* lines 42-56 and line 337: category -> count, for the categories that have rows
BmiDistribution(rows) ==
    LET measured == {v \in BagToSet(rows) : IsVal(v.bmi)}
        categories == {SqlBmiCategory(v.bmi.v) : v \in measured}
    IN  [c \in categories |->
            CountRows(rows, LAMBDA v : IsVal(v.bmi) /\ SqlBmiCategory(v.bmi.v) = c)]

\* lines 59-74 and line 351
HypertensionData(rows) ==
    LET both(v) == IsVal(v.blood_pressure_systolic) /\ IsVal(v.blood_pressure_diastolic)
        category(v) == SqlPressureCategory(v.blood_pressure_systolic.v,
                                           v.blood_pressure_diastolic.v)
        categories == {category(v) : v \in {x \in BagToSet(rows) : both(x)}}
    IN  [c \in categories |-> CountRows(rows, LAMBDA v : both(v) /\ category(v) = c)]

RECURSIVE SumValues(_)
\* sum(d.values())
SumValues(d) ==
    IF DOMAIN d = {} THEN 0
    ELSE LET k == CHOOSE x \in DOMAIN d : TRUE
         IN  d[k] + SumValues([x \in DOMAIN d \ {k} |-> d[x]])

\* lines 371-375, both rates bound
DashboardRecommendations(obesity_rate, hypertension_rate) ==
    (IF obesity_rate > 300
     THEN <<"Implement comprehensive weight management programs">> ELSE <<>>)
    \o (IF hypertension_rate > 250
        THEN <<"Expand cardiovascular health monitoring and interventions">> ELSE <<>>)

\* generate_executive_summary(): rows the visits of the last 90 days,
\* screening_rows the completed screenings.  obesity_rate and hypertension_rate
\* are assigned only under "if total_..._records > 0", and lines 372 and 374
\* read them whatever happened: an unassigned local raises UnboundLocalError
\* before the "in locals()" tests of the return statement are reached.  An
\* exception of get_corporate_wellness_summary() passes through.
generate_executive_summary(rows, screening_rows) ==
    LET GetOrZero(d, k) == IF k \in DOMAIN d THEN d[k] ELSE 0      \* d.get(k, 0)
        wellness_data == get_corporate_wellness_summary(screening_rows)
        visit_stats == VisitStats(rows)
        bmi_data == BmiDistribution(rows)
        total_bmi_records == SumValues(bmi_data)
        bp_data == HypertensionData(rows)
        total_bp_records == SumValues(bp_data)
        obesity_rate == Percentage(GetOrZero(bmi_data, "Obese"), total_bmi_records)
        overweight_rate == Percentage(GetOrZero(bmi_data, "Overweight"), total_bmi_records)
        hypertension_rate == Percentage(GetOrZero(bp_data, "Hypertensive"), total_bp_records)
        has_summary_stats == "total_screenings" \in DOMAIN wellness_data.value
        recommendations == DashboardRecommendations(obesity_rate, hypertension_rate)
    IN  IF wellness_data.tag = "raised" THEN wellness_data
        ELSE IF total_bmi_records = 0 \/ total_bp_records = 0
        THEN Raised("UnboundLocalError")
        ELSE Returned(
               [executive_summary |->
                    (IF visit_stats.total_visits > 0
                     THEN <<Sentence("visits", <<visit_stats.total_visits,
                                                 visit_stats.unique_patients,
                                                 visit_stats.screening_visits>>, <<>>)>>
                     ELSE <<>>)
                    \o <<Sentence("obesity", <<obesity_rate, overweight_rate>>, <<>>)>>
                    \o <<Sentence("hypertension", <<hypertension_rate>>, <<>>)>>
                    \o (IF has_summary_stats
                        THEN <<Sentence("corporate wellness",
                                        <<wellness_data.value.total_participants,
                                          wellness_data.value.total_screenings>>, <<>>)>>
                        ELSE <<>>)
                    \o (IF recommendations # <<>>
                        THEN <<Sentence("priority recommendations", <<>>, recommendations)>>
                        ELSE <<>>),
                key_metrics |->
                    [total_visits_3m |-> visit_stats.total_visits,
                     obesity_rate |-> obesity_rate,
                     hypertension_rate |-> hypertension_rate,
                     corporate_participants |->
                         IF has_summary_stats THEN wellness_data.value.total_participants
                         ELSE 0]])

\* Visits of the range.  With a BMI only: none, or ten of them with the obese
\* at, over and under 30 %.  With both readings only: none, or four of them
\* with the hypertensive at, over and under 25 %.  With a systolic only and
\* with nothing measured: none or one of each.
DashboardWindows ==
    LET ObeseVisit == WindowRow("PAT-1", "Corporate Screening", Val(3000), None, None)
        OverweightVisit == WindowRow("PAT-2", "Walk-in", Val(2500), None, None)
        HealthyWeightVisit == WindowRow("PAT-3", "Walk-in", Val(2200), None, None)
        HypertensiveVisit == WindowRow("PAT-4", "Corporate Screening", None, Val(130), Val(90))
        ElevatedVisit == WindowRow("PAT-5", "Walk-in", None, Val(120), Val(70))
        NormalVisit == WindowRow("PAT-5", "Walk-in", None, Val(110), Val(70))
        SystolicOnlyVisit == WindowRow("PAT-6", "Walk-in", None, Val(150), None)
        UnmeasuredVisit == WindowRow("PAT-6", "Follow-up", None, None, None)
        BmiVisits ==
            {EmptyBag} \cup
            {BagOf((ObeseVisit :> ob) @@ (OverweightVisit :> ow)
                   @@ (HealthyWeightVisit :> 10 - ob - ow)) : ob \in {0, 3, 4}, ow \in {0, 2}}
        PressureVisits ==
            {EmptyBag} \cup
            {BagOf((HypertensiveVisit :> hy) @@ (ElevatedVisit :> el)
                   @@ (NormalVisit :> 4 - hy - el)) : hy \in {0, 1, 2}, el \in {0, 1}}
        OtherVisits == {EmptyBag, BagOf((SystolicOnlyVisit :> 1) @@ (UnmeasuredVisit :> 1))}
    IN  {b (+) p (+) o : b \in BmiVisits, p \in PressureVisits, o \in OtherVisits}

\* No completed screening, one with every rate, one whose cohort had no BMI.
CompletedScreenings ==
    {<<>>,
     <<[total_participants |-> Val(50), obesity_prevalence |-> Val(200),
        hypertension_prevalence |-> Val(400), diabetes_prevalence |-> Val(200),
        smoking_prevalence |-> Val(200)]>>,
     <<[total_participants |-> Val(50), obesity_prevalence |-> None,
        hypertension_prevalence |-> Val(400), diabetes_prevalence |-> Val(200),
        smoking_prevalence |-> Val(200)]>>}

\* A screening saved (before_save) on an earlier state of its cohort and not
\* submitted yet, the visits of its company and period, the visits of the
\* dashboard's range, and the completed screenings.
InitSummaries ==
    /\ visits \in SummaryCohorts
    /\ \E earlier \in {EmptyBag, BagOf(AllElevated :> 40)} :
           screening = [doc |-> calculate_statistics(
                                    [NewScreening EXCEPT !.cost_per_participant = Val(25)],
                                    earlier),
                        stats_current |-> FALSE]
    /\ window \in DashboardWindows
    /\ screenings \in CompletedScreenings
    /\ summary = NotCalled
    /\ IdleVisit

\* CorporateScreening.on_submit
OnSubmit ==
    /\ screening.doc.status # Val("Completed")
    /\ screening' = [doc |-> calculate_final_statistics(
                                 [screening.doc EXCEPT !.status = Val("Completed")], visits),
                     stats_current |-> TRUE]
    /\ UNCHANGED <<visit_data, risk, bp_util, bp_visit, visits, screenings, summary, window,
                   results>>

GenerateExecutiveSummary ==
    Call("generate_executive_summary", generate_executive_summary(window, screenings))

NextSummaries == OnSubmit \/ GenerateExecutiveSummary

SpecSummaries == InitSummaries /\ [][NextSummaries]_vars

-----------------------------------------------------------------------------
(* get_bmi_category and get_glucose_category: utility functions and Visit methods *)

\* A slip that puts a boundary value in the lower band.
get_bmi_category_InclusiveHigh(bmi) ==
    IF ~Truthy(bmi) THEN None
    ELSE IF bmi.v <= 1850 THEN Val("Underweight")
    ELSE IF bmi.v <= 2500 THEN Val("Healthy Weight")
    ELSE IF bmi.v <= 3000 THEN Val("Overweight")
    ELSE IF bmi.v <= 3500 THEN Val("Obesity Stage 1")
    ELSE IF bmi.v <= 4000 THEN Val("Obesity Stage 2")
    ELSE Val("Morbidly Obese")

\* A slip that tests "bmi is None" where the code tests "not bmi".
get_bmi_category_NoneOnly(bmi) ==
    IF bmi = None THEN None
    ELSE IF bmi.v < 1850 THEN Val("Underweight")
    ELSE IF bmi.v < 2500 THEN Val("Healthy Weight")
    ELSE IF bmi.v < 3000 THEN Val("Overweight")
    ELSE IF bmi.v < 3500 THEN Val("Obesity Stage 1")
    ELSE IF bmi.v < 4000 THEN Val("Obesity Stage 2")
    ELSE Val("Morbidly Obese")

\* health_calculations.get_bmi_category(bmi); "not bmi" holds of None and of 0,
\* not of a negative number
get_bmi_category(bmi) ==
    IF ~Truthy(bmi) THEN None
    ELSE IF bmi.v < 1850 THEN Val("Underweight")
    ELSE IF bmi.v < 2500 THEN Val("Healthy Weight")
    ELSE IF bmi.v < 3000 THEN Val("Overweight")
    ELSE IF bmi.v < 3500 THEN Val("Obesity Stage 1")
    ELSE IF bmi.v < 4000 THEN Val("Obesity Stage 2")
    ELSE Val("Morbidly Obese")

\* Visit.get_bmi_category(self)
Visit_get_bmi_category(self) ==
    IF ~Truthy(self["bmi"]) THEN None
    ELSE IF self["bmi"].v < 1850 THEN Val("Underweight")
    ELSE IF self["bmi"].v < 2500 THEN Val("Healthy Weight")
    ELSE IF self["bmi"].v < 3000 THEN Val("Overweight")
    ELSE IF self["bmi"].v < 3500 THEN Val("Obesity Stage 1")
    ELSE IF self["bmi"].v < 4000 THEN Val("Obesity Stage 2")
    ELSE Val("Morbidly Obese")

\* health_calculations.get_glucose_category(glucose_mg_dl)
get_glucose_category(glucose_mg_dl) ==
    IF ~Truthy(glucose_mg_dl) THEN None
    ELSE IF glucose_mg_dl.v < 70 THEN Val("Low")
    ELSE IF glucose_mg_dl.v < 100 THEN Val("Normal (Fasting)")
    ELSE IF glucose_mg_dl.v < 126 THEN Val("Prediabetic (Fasting)")
    ELSE IF glucose_mg_dl.v < 200 THEN Val("Diabetic (Fasting)")
    ELSE Val("Severely Elevated")

\* A slip that takes the utility function's 126 for the Visit method's 140.
Visit_get_glucose_category_Threshold126(self) ==
    IF ~Truthy(self["blood_glucose"]) THEN None
    ELSE LET glucose == self["blood_glucose"].v
         IN  IF glucose < 70 THEN Val("Low")
             ELSE IF glucose < 100 THEN Val("Normal")
             ELSE IF glucose < 126 THEN Val("Prediabetic")
             ELSE Val("Diabetic")

\* Visit.get_glucose_category(self)
Visit_get_glucose_category(self) ==
    IF ~Truthy(self["blood_glucose"]) THEN None
    ELSE LET glucose == self["blood_glucose"].v
         IN  IF glucose < 70 THEN Val("Low")
             ELSE IF glucose < 100 THEN Val("Normal")
             ELSE IF glucose < 140 THEN Val("Prediabetic")
             ELSE Val("Diabetic")

\* BMI values (hundredths) at, just under and just over every boundary, 0 (a
\* field left empty), None, and the negative values a negative weight gives.
BmiReadings ==
    {None, Val(-2500), Val(-1), Val(0), Val(1), Val(1000), Val(1849), Val(1850), Val(1851),
     Val(2499), Val(2500), Val(2501), Val(2999), Val(3000), Val(3001), Val(3499), Val(3500),
     Val(3501), Val(3999), Val(4000), Val(4001), Val(9999), Val(10000)}

GlucoseReadings ==
    {None, Val(0), Val(50), Val(69), Val(70), Val(99), Val(100), Val(125), Val(126),
     Val(130), Val(139), Val(140), Val(199), Val(200), Val(300)}

InitCategories ==
    /\ \E b \in BmiReadings, g \in GlucoseReadings :
           visit_data = [NoData EXCEPT !["bmi"] = b, !["blood_glucose"] = g]
    /\ risk = NotCalled /\ bp_util = NotCalled /\ bp_visit = NotCalled
    /\ results = NoResults
    /\ IdleScreening /\ IdleDashboard /\ IdleWindow

\* a caller passes the visit's bmi to the utility function
GetBmiCategory == Call("get_bmi_category", Returned(get_bmi_category(visit_data["bmi"])))

VisitGetBmiCategory == Call("Visit.get_bmi_category", Returned(Visit_get_bmi_category(visit_data)))

GetGlucoseCategory ==
    Call("get_glucose_category", Returned(get_glucose_category(visit_data["blood_glucose"])))

VisitGetGlucoseCategory ==
    Call("Visit.get_glucose_category", Returned(Visit_get_glucose_category(visit_data)))

NextCategories ==
    GetBmiCategory \/ VisitGetBmiCategory \/ GetGlucoseCategory \/ VisitGetGlucoseCategory

SpecCategories == InitCategories /\ [][NextCategories]_vars

-----------------------------------------------------------------------------
(* health_calculations.calculate_metabolic_syndrome_criteria *)

\* A slip that applies the women's threshold to everyone.
WaistCriterion_Threshold35(visit_data_) ==
    LET waist == Get(visit_data_, "waist_circumference")
        gender == Get(visit_data_, "gender")
    IN  IF Truthy(waist) /\ TruthyStr(gender)
        THEN IF waist.v >= 35 THEN <<"Waist circumference >=35 inches">> ELSE <<>>
        ELSE <<>>

\* lines 140-146: the detail appended for the waist, if any ("≥" written ">=")
WaistCriterion(visit_data_) ==
    LET waist == Get(visit_data_, "waist_circumference")
        gender == Get(visit_data_, "gender")
    IN  IF Truthy(waist) /\ TruthyStr(gender)
        THEN LET threshold == IF gender = Val("Male") THEN 40 ELSE 35
             IN  IF waist.v >= threshold
                 THEN <<IF threshold = 40 THEN "Waist circumference >=40 inches"
                                          ELSE "Waist circumference >=35 inches">>
                 ELSE <<>>
        ELSE <<>>

\* lines 149-153
PressureCriterion(visit_data_) ==
    LET systolic == Get(visit_data_, "blood_pressure_systolic")
        diastolic == Get(visit_data_, "blood_pressure_diastolic")
    IN  IF Truthy(systolic) /\ Truthy(diastolic) /\ (systolic.v >= 130 \/ diastolic.v >= 85)
        THEN <<"Elevated blood pressure">>
        ELSE <<>>

\* lines 156-159
GlucoseCriterion(visit_data_) ==
    LET glucose == Get(visit_data_, "blood_glucose")
    IN  IF Truthy(glucose) /\ glucose.v >= 100 THEN <<"Elevated fasting glucose">> ELSE <<>>

\* A slip that asks for two criteria.
HasMetabolicSyndrome_TwoCriteria(criteria_met) == criteria_met >= 2

\* line 164
HasMetabolicSyndrome(criteria_met) == criteria_met >= 3

\* criteria_met is incremented with every append to criteria_details
calculate_metabolic_syndrome_criteria(visit_data_) ==
    LET criteria_details == WaistCriterion(visit_data_) \o PressureCriterion(visit_data_)
                                \o GlucoseCriterion(visit_data_)
        criteria_met == Len(criteria_details)
    IN  [criteria_met |-> criteria_met,
         has_metabolic_syndrome |-> HasMetabolicSyndrome(criteria_met),
         criteria_details |-> criteria_details]

\* Records around every threshold, with each field missing, null or empty.
MetabolicRecords ==
    {[NoData EXCEPT !["waist_circumference"] = w, !["gender"] = gd,
                    !["blood_pressure_systolic"] = sy, !["blood_pressure_diastolic"] = di,
                    !["blood_glucose"] = g] :
        w \in {Absent, None, Val(0), Val(34), Val(35), Val(36), Val(39), Val(40)},
        gd \in {Absent, None, Val(""), Val("Male"), Val("Female"), Val("Other")},
        sy \in {Absent, None, Val(0), Val(129), Val(130)},
        di \in {Absent, None, Val(84), Val(85)},
        g \in {Absent, None, Val(0), Val(99), Val(100), Val(110)}}

InitMetabolic ==
    /\ visit_data \in MetabolicRecords
    /\ risk = NotCalled /\ bp_util = NotCalled /\ bp_visit = NotCalled
    /\ results = NoResults
    /\ IdleScreening /\ IdleDashboard /\ IdleWindow

CalculateMetabolicSyndromeCriteria ==
    Call("calculate_metabolic_syndrome_criteria",
         Returned(calculate_metabolic_syndrome_criteria(visit_data)))

NextMetabolic == CalculateMetabolicSyndromeCriteria

SpecMetabolic == InitMetabolic /\ [][NextMetabolic]_vars

-----------------------------------------------------------------------------
(* health_calculations.generate_health_recommendations *)

\* one element of the returned list
Recommendation(category, recommendation, priority) ==
    [category |-> category, recommendation |-> recommendation, priority |-> priority]

\* lines 178-197; bmi in hundredths
WeightRecommendation(visit_data_) ==
    LET bmi == Get(visit_data_, "bmi")
    IN  IF ~Truthy(bmi) THEN <<>>
        ELSE IF bmi.v >= 3000
        THEN <<Recommendation("Weight Management",
                   "Consider a structured weight loss program with nutritional counseling and regular exercise",
                   "High")>>
        ELSE IF bmi.v >= 2500
        THEN <<Recommendation("Weight Management",
                   "Maintain healthy weight through balanced diet and regular physical activity",
                   "Medium")>>
        ELSE IF bmi.v < 1850
        THEN <<Recommendation("Weight Management",
                   "Consider nutritional counseling to achieve healthy weight gain",
                   "Medium")>>
        ELSE <<>>

\* lines 200-214
PressureRecommendation(visit_data_) ==
    LET systolic == Get(visit_data_, "blood_pressure_systolic")
        diastolic == Get(visit_data_, "blood_pressure_diastolic")
    IN  IF ~(Truthy(systolic) /\ Truthy(diastolic)) THEN <<>>
        ELSE IF systolic.v >= 140 \/ diastolic.v >= 90
        THEN <<Recommendation("Cardiovascular Health",
                   "Consult physician for blood pressure management and regular monitoring",
                   "High")>>
        ELSE IF systolic.v >= 130 \/ diastolic.v >= 80
        THEN <<Recommendation("Cardiovascular Health",
                   "Monitor blood pressure regularly and consider lifestyle modifications",
                   "Medium")>>
        ELSE <<>>

\* lines 217-230
GlucoseRecommendation(visit_data_) ==
    LET glucose == Get(visit_data_, "blood_glucose")
    IN  IF ~Truthy(glucose) THEN <<>>
        ELSE IF glucose.v >= 126
        THEN <<Recommendation("Diabetes Management",
                   "Follow up with healthcare provider for diabetes management and HbA1c testing",
                   "High")>>
        ELSE IF glucose.v >= 100
        THEN <<Recommendation("Diabetes Prevention",
                   "Consider diabetes prevention program with lifestyle modifications",
                   "Medium")>>
        ELSE <<>>

\* lines 233-239
SmokingRecommendation(visit_data_) ==
    IF Get(visit_data_, "smoking_habits") \in {Val("Daily"), Val("Occasionally")}
    THEN <<Recommendation("Smoking Cessation",
               "Join smoking cessation program and consider stress management alternatives",
               "High")>>
    ELSE <<>>

\* lines 241-247
ActivityRecommendation(visit_data_) ==
    IF Get(visit_data_, "exercise_frequency") \in {Val("None"), Val("Rarely")}
    THEN <<Recommendation("Physical Activity",
               "Start with 30 minutes of moderate exercise 3-4 times per week",
               "Medium")>>
    ELSE <<>>

\* lines 250-256
StressRecommendation(visit_data_) ==
    IF Get(visit_data_, "stress_level") = Val("High (7-10)")
    THEN <<Recommendation("Stress Management",
               "Consider stress reduction techniques, counseling, or wellness programs",
               "Medium")>>
    ELSE <<>>

\* A slip that also advises the sleeper of exactly 7 hours.
SleepRecommendation_AtMost7(visit_data_) ==
    LET sleep_hours == Get(visit_data_, "sleep_hours")
    IN  IF Truthy(sleep_hours) /\ sleep_hours.v <= 70
        THEN <<Recommendation("Sleep Health",
                   "Aim for 7-9 hours of quality sleep per night and practice good sleep hygiene",
                   "Low")>>
        ELSE <<>>

\* lines 259-265; sleep_hours in tenths of an hour
SleepRecommendation(visit_data_) ==
    LET sleep_hours == Get(visit_data_, "sleep_hours")
    IN  IF Truthy(sleep_hours) /\ sleep_hours.v < 70
        THEN <<Recommendation("Sleep Health",
                   "Aim for 7-9 hours of quality sleep per night and practice good sleep hygiene",
                   "Low")>>
        ELSE <<>>

\* the blocks append to one list, in this order
generate_health_recommendations(visit_data_) ==
    WeightRecommendation(visit_data_) \o PressureRecommendation(visit_data_)
        \o GlucoseRecommendation(visit_data_) \o SmokingRecommendation(visit_data_)
        \o ActivityRecommendation(visit_data_) \o StressRecommendation(visit_data_)
        \o SleepRecommendation(visit_data_)

\* Records at and under every threshold of every block, with fields missing,
\* null and zero.
RecommendationRecords ==
    {[NoData EXCEPT !["bmi"] = b, !["blood_pressure_systolic"] = sy,
                    !["blood_pressure_diastolic"] = di, !["blood_glucose"] = g,
                    !["smoking_habits"] = sm, !["exercise_frequency"] = e,
                    !["stress_level"] = st, !["sleep_hours"] = sl] :
        b \in {Absent, Val(0), Val(1849), Val(1850), Val(2499), Val(2500), Val(2999), Val(3000)},
        sy \in {Absent, Val(0), Val(129), Val(130), Val(140)},
        di \in {None, Val(79), Val(80), Val(90)},
        g \in {Absent, None, Val(0), Val(99), Val(100), Val(125), Val(126)},
        sm \in {Absent, Val("Never"), Val("Occasionally"), Val("Daily")},
        e \in {None, Val("None"), Val("Rarely"), Val("3-4 times per week")},
        st \in {Absent, Val("Low (1-3)"), Val("High (7-10)")},
        sl \in {Absent, Val(0), Val(65), Val(70)}}

InitRecommendations ==
    /\ visit_data \in RecommendationRecords
    /\ risk = NotCalled /\ bp_util = NotCalled /\ bp_visit = NotCalled
    /\ results = NoResults
    /\ IdleScreening /\ IdleDashboard /\ IdleWindow

GenerateHealthRecommendations ==
    Call("generate_health_recommendations",
         Returned(generate_health_recommendations(visit_data)))

NextRecommendations == GenerateHealthRecommendations

SpecRecommendations == InitRecommendations /\ [][NextRecommendations]_vars

-----------------------------------------------------------------------------
(* health_calculations.calculate_wellness_wheel_scores *)

\* mapping.get(key, default), the mapping a function on its keys
MappingGet(mapping, key, default) ==
    IF IsVal(key) /\ key.v \in DOMAIN mapping THEN mapping[key.v] ELSE default

\* lines 276-282
exercise_mapping ==
    [k \in {"None", "Rarely", "1-2 times/week", "3-4 times/week", "5+ times/week"} |->
        CASE k = "None" -> 1
          [] k = "Rarely" -> 3
          [] k = "1-2 times/week" -> 5
          [] k = "3-4 times/week" -> 8
          [] k = "5+ times/week" -> 10]

\* lines 296-300
stress_mapping ==
    [k \in {"Low (1-3)", "Moderate (4-6)", "High (7-10)"} |->
        CASE k = "Low (1-3)" -> 9
          [] k = "Moderate (4-6)" -> 5
          [] k = "High (7-10)" -> 2]

\* lines 305-310
smoking_mapping ==
    [k \in {"Never", "Former Smoker", "Occasionally", "Daily"} |->
        CASE k = "Never" -> 10
          [] k = "Former Smoker" -> 7
          [] k = "Occasionally" -> 3
          [] k = "Daily" -> 1]

\* lines 315-321
alcohol_mapping ==
    [k \in {"None", "Occasionally", "Social Drinking", "Binge Drinking", "Heavy Drinking"} |->
        CASE k = "None" -> 8
          [] k = "Occasionally" -> 9
          [] k = "Social Drinking" -> 7
          [] k = "Binge Drinking" -> 3
          [] k = "Heavy Drinking" -> 1]

\* A slip that gives the hour under the window the score of the window.
SleepScore_From6(sleep_hours) ==
    IF sleep_hours >= 60 /\ sleep_hours <= 90 THEN 8
    ELSE IF sleep_hours >= 60 /\ sleep_hours <= 100 THEN 6
    ELSE 3

\* lines 287-292; sleep_hours in tenths of an hour
SleepScore(sleep_hours) ==
    IF sleep_hours >= 70 /\ sleep_hours <= 90 THEN 8
    ELSE IF sleep_hours >= 60 /\ sleep_hours <= 100 THEN 6
    ELSE 3

\* line 325: round(sum(scores.values()) / len(scores), 1), in tenths, over the
\* five scores set so far
OverallScore(scores) ==
    Round1(10 * (scores.exercise + scores.sleep + scores.stress + scores.smoking
                     + scores.alcohol), 5)

\* visit_data.get('sleep_hours', 7) is None for a key that is present and
\* null, and None >= 7 raises TypeError
calculate_wellness_wheel_scores(visit_data_) ==
    LET exercise == Get(visit_data_, "exercise_frequency")
        sleep_hours == GetDefault(visit_data_, "sleep_hours", 70)
        stress == Get(visit_data_, "stress_level")
        smoking == Get(visit_data_, "smoking_habits")
        alcohol == Get(visit_data_, "alcohol_consumption")
    IN  IF sleep_hours = None THEN Raised("TypeError")
        ELSE LET scores == [exercise |-> MappingGet(exercise_mapping, exercise, 5),
                            sleep |-> SleepScore(sleep_hours.v),
                            stress |-> MappingGet(stress_mapping, stress, 5),
                            smoking |-> MappingGet(smoking_mapping, smoking, 10),
                            alcohol |-> MappingGet(alcohol_mapping, alcohol, 7)]
             IN  Returned([exercise |-> scores.exercise, sleep |-> scores.sleep,
                           stress |-> scores.stress, smoking |-> scores.smoking,
                           alcohol |-> scores.alcohol, overall |-> OverallScore(scores)])

\* The options of the exercise_frequency field of a visit.
ExerciseFrequencyOptions ==
    {"None", "Rarely", "1-2 times per week", "3-4 times per week", "5+ times per week"}

\* Records with every key of every table, the options of the exercise field, a
\* literal no table knows, hours at and around the ends of both windows, and
\* each field missing or null.
WellnessRecords ==
    {[NoData EXCEPT !["exercise_frequency"] = e, !["sleep_hours"] = sl,
                    !["stress_level"] = st, !["smoking_habits"] = sm,
                    !["alcohol_consumption"] = al] :
        e \in {Absent, None, Val("Sometimes")} \cup {Val(k) : k \in DOMAIN exercise_mapping}
                  \cup {Val(k) : k \in ExerciseFrequencyOptions},
        sl \in {Absent, None, Val(0), Val(50), Val(59), Val(60), Val(69), Val(70), Val(80),
                Val(90), Val(91), Val(100), Val(101), Val(120)},
        st \in {Absent, None, Val("Unknown")} \cup {Val(k) : k \in DOMAIN stress_mapping},
        sm \in {Absent, None, Val("Unknown")} \cup {Val(k) : k \in DOMAIN smoking_mapping},
        al \in {Absent, None, Val("Unknown")} \cup {Val(k) : k \in DOMAIN alcohol_mapping}}

InitWellness ==
    /\ visit_data \in WellnessRecords
    /\ risk = NotCalled /\ bp_util = NotCalled /\ bp_visit = NotCalled
    /\ results = NoResults
    /\ IdleScreening /\ IdleDashboard /\ IdleWindow

CalculateWellnessWheelScores ==
    Call("calculate_wellness_wheel_scores", calculate_wellness_wheel_scores(visit_data))

NextWellness == CalculateWellnessWheelScores

SpecWellness == InitWellness /\ [][NextWellness]_vars

-----------------------------------------------------------------------------
(* Visit.before_save, over edits and saves of one Visit document *)

\* A Visit document is visit_data with every field None or a value.  height is
\* in whole centimetres, weight in whole kilograms, temperature in whole
\* degrees; visit_date is the number of days from today (1 is tomorrow).

\* Visit.calculate_bmi: round(self.weight / (height_m ** 2), 2) with
\* height_m = self.height / 100, in hundredths.  There is no else branch:
\* self.bmi is left as it was.
Visit_calculate_bmi(self) ==
    IF Truthy(self["height"]) /\ Truthy(self["weight"]) /\ self["height"].v > 0
    THEN [self EXCEPT !["bmi"] = Val(Round1(1000000 * self["weight"].v,
                                            self["height"].v * self["height"].v))]
    ELSE self

\* Visit.set_patient_name
set_patient_name(self) ==
    IF TruthyStr(self["patient"])
    THEN [self EXCEPT !["patient_name"] = Val("full_name of the patient")]
    ELSE self

\* Visit.set_created_by
set_created_by(self) ==
    IF ~TruthyStr(self["created_by_user"])
    THEN [self EXCEPT !["created_by_user"] = Val("frappe.session.user")]
    ELSE self

\* Visit.validate_visit_data: the message of the first frappe.throw, or None
validate_visit_data(self) ==
    IF IsVal(self["visit_date"]) /\ self["visit_date"].v > 0
    THEN Val("Visit date cannot be in the future")
    ELSE IF Truthy(self["blood_pressure_systolic"]) /\ self["blood_pressure_systolic"].v > 250
    THEN Val("Systolic blood pressure seems unusually high. Please verify.")
    ELSE IF Truthy(self["blood_pressure_diastolic"]) /\ self["blood_pressure_diastolic"].v > 150
    THEN Val("Diastolic blood pressure seems unusually high. Please verify.")
    ELSE IF /\ Truthy(self["heart_rate"])
            /\ (self["heart_rate"].v < 30 \/ self["heart_rate"].v > 220)
    THEN Val("Heart rate seems unusual. Please verify.")
    ELSE IF /\ Truthy(self["temperature"])
            /\ (self["temperature"].v < 32 \/ self["temperature"].v > 45)
    THEN Val("Temperature reading seems unusual. Please verify.")
    ELSE IF Truthy(self["blood_glucose"]) /\ self["blood_glucose"].v > 600
    THEN Val("Blood glucose reading seems extremely high. Please verify.")
    ELSE None

\* Visit.before_save: the document it leaves and how it ends.  A throw of
\* validate_visit_data comes after calculate_bmi and set_patient_name ran.
Visit_before_save(self) ==
    LET named == set_patient_name(Visit_calculate_bmi(self))
        thrown == validate_visit_data(named)
    IN  IF thrown # None
        THEN [doc |-> named, outcome |-> Raised(thrown.v)]
        ELSE [doc |-> set_created_by(named), outcome |-> Returned(None)]

\* What a user can enter into the fields of the form.
Entries ==
    [height |-> {None, Val(0), Val(170), Val(180)},
     weight |-> {None, Val(0), Val(70), Val(90), Val(-70)},
     visit_date |-> {Val(0), Val(1)},
     blood_pressure_systolic |-> {None, Val(120), Val(260)},
     blood_pressure_diastolic |-> {None, Val(160)},
     heart_rate |-> {None, Val(20)},
     temperature |-> {None, Val(50)},
     blood_glucose |-> {None, Val(700)}]

InitVisit ==
    /\ visit_data = [[f \in FieldNames |-> None] EXCEPT !["patient"] = Val("PAT-0001"),
                                                         !["visit_date"] = Val(0)]
    /\ risk = NotCalled /\ bp_util = NotCalled /\ bp_visit = NotCalled
    /\ results = NoResults
    /\ IdleScreening /\ IdleDashboard /\ IdleWindow

\* the user changes one field of the form
EditField ==
    /\ \E f \in DOMAIN Entries :
          \E x \in Entries[f] :
              /\ x # visit_data[f]
              /\ visit_data' = [visit_data EXCEPT ![f] = x]
    /\ results' = [results EXCEPT !["Visit.before_save"] = NotCalled]
    /\ UNCHANGED <<risk, bp_util, bp_visit, visits, screening, screenings, summary, window>>

BeforeSave ==
    /\ visit_data' = Visit_before_save(visit_data).doc
    /\ results' = [results EXCEPT !["Visit.before_save"] = Visit_before_save(visit_data).outcome]
    /\ UNCHANGED <<risk, bp_util, bp_visit, visits, screening, screenings, summary, window>>

NextVisit == EditField \/ BeforeSave

SpecVisit == InitVisit /\ [][NextVisit]_vars

-----------------------------------------------------------------------------
(* Claims about calculate_cardiovascular_risk_score (SpecRisk) *)

\* "field >= n" read on a record: the field is there and its value is >= n.
FieldGe(d, k, n) == IsVal(d[k]) /\ d[k].v >= n

\* Both blood-pressure values are there and non-zero.
BothPressures(d) ==
    /\ IsVal(d["blood_pressure_systolic"]) /\ d["blood_pressure_systolic"].v # 0
    /\ IsVal(d["blood_pressure_diastolic"]) /\ d["blood_pressure_diastolic"].v # 0

PressureAtLeast(d, s, di) ==
    FieldGe(d, "blood_pressure_systolic", s) \/ FieldGe(d, "blood_pressure_diastolic", di)

\* The factor each group fires, as a list of at most one <<points, name>>.
AgeGroup(d) == IF FieldGe(d, "age", 45) THEN << <<1, "Age >=45">> >> ELSE <<>>

BmiGroup(d) ==
    IF FieldGe(d, "bmi", 3000) THEN << <<2, "Obesity">> >>
    ELSE IF FieldGe(d, "bmi", 2500) THEN << <<1, "Overweight">> >>
    ELSE <<>>

\* as the claim words it: either value alone fires the group
PressureGroupAsWorded(d) ==
    IF PressureAtLeast(d, 140, 90) THEN << <<2, "Hypertension">> >>
    ELSE IF PressureAtLeast(d, 130, 80) THEN << <<1, "Elevated BP">> >>
    ELSE <<>>

\* amended: the group fires only with both values there
PressureGroup(d) == IF BothPressures(d) THEN PressureGroupAsWorded(d) ELSE <<>>

GlucoseGroup(d) ==
    IF FieldGe(d, "blood_glucose", 126) THEN << <<2, "Diabetes">> >>
    ELSE IF FieldGe(d, "blood_glucose", 100) THEN << <<1, "Prediabetes">> >>
    ELSE <<>>

SmokingGroup(d) ==
    IF d["smoking_habits"] \in {Val("Daily"), Val("Occasionally")}
    THEN << <<2, "Smoking">> >> ELSE <<>>

InactivityGroup(d) ==
    IF d["exercise_frequency"] \in {Val("None"), Val("Rarely")}
    THEN << <<1, "Physical Inactivity">> >> ELSE <<>>

RECURSIVE SumPoints(_)
SumPoints(fired) == IF fired = <<>> THEN 0 ELSE Head(fired)[1] + SumPoints(Tail(fired))

FactorNames(fired) == [i \in 1..Len(fired) |-> fired[i][2]]

LevelOfScore(n) ==
    CASE n <= 2 -> "Low Risk"
      [] n > 2 /\ n <= 4 -> "Moderate Risk"
      [] n > 4 /\ n <= 6 -> "High Risk"
      [] n > 6 -> "Very High Risk"

ExpectedAssessment(fired) ==
    [risk_score |-> SumPoints(fired),
     risk_level |-> LevelOfScore(SumPoints(fired)),
     risk_factors |-> FactorNames(fired)]

ExampleRecord ==
    [NoData EXCEPT !["age"] = Val(50), !["bmi"] = Val(3200),
                   !["blood_pressure_systolic"] = Val(145),
                   !["blood_pressure_diastolic"] = Val(95),
                   !["blood_glucose"] = Val(130), !["smoking_habits"] = Val("Daily"),
                   !["exercise_frequency"] = Val("None")]

\* C1 as worded: whenever the function returns, the assessment is the sum, the
\* level and the ordered factor list of the six groups, the blood-pressure
\* group firing as soon as systolic >= 140 or diastolic >= 90 (130 / 80).
C1_AsWorded ==
    risk.tag = "returned" =>
        risk.value = ExpectedAssessment(
            AgeGroup(visit_data) \o BmiGroup(visit_data) \o PressureGroupAsWorded(visit_data)
            \o GlucoseGroup(visit_data) \o SmokingGroup(visit_data)
            \o InactivityGroup(visit_data))

\* C1 amended: whenever calculate_cardiovascular_risk_score returns, risk_score
\* is the sum of the fired groups' points, risk_level its band and risk_factors
\* the fired factors in the order age, BMI, blood pressure, glucose, smoking,
\* inactivity, where the blood-pressure group fires only when both systolic
\* and diastolic are present and non-zero; the example record scores 10, Very
\* High Risk, with 6 factors.
C1_RiskAssessment ==
    risk.tag = "returned" =>
        /\ risk.value = ExpectedAssessment(
               AgeGroup(visit_data) \o BmiGroup(visit_data) \o PressureGroup(visit_data)
               \o GlucoseGroup(visit_data) \o SmokingGroup(visit_data)
               \o InactivityGroup(visit_data))
        /\ visit_data = ExampleRecord =>
               /\ risk.value.risk_score = 10
               /\ risk.value.risk_level = "Very High Risk"
               /\ Len(risk.value.risk_factors) = 6

C1_Witness ==
    /\ visit_data = ExampleRecord
    /\ risk.tag = "returned"
    /\ risk.value.risk_score = 10

\* The fields of each group and the factor names the group can record.
GroupFields ==
    [age |-> {"age"}, bmi |-> {"bmi"},
     pressure |-> {"blood_pressure_systolic", "blood_pressure_diastolic"},
     glucose |-> {"blood_glucose"}, smoking |-> {"smoking_habits"},
     exercise |-> {"exercise_frequency"}]

GroupFactors ==
    [age |-> {"Age >=45"}, bmi |-> {"Obesity", "Overweight"},
     pressure |-> {"Hypertension", "Elevated BP"},
     glucose |-> {"Diabetes", "Prediabetes"}, smoking |-> {"Smoking"},
     exercise |-> {"Physical Inactivity"}]

FactorPoints ==
    [f \in {"Age >=45", "Obesity", "Overweight", "Hypertension", "Elevated BP", "Diabetes",
            "Prediabetes", "Smoking", "Physical Inactivity"} |->
        IF f \in {"Obesity", "Hypertension", "Diabetes", "Smoking"} THEN 2 ELSE 1]

RECURSIVE SumFactorPoints(_)
SumFactorPoints(names) ==
    IF names = <<>> THEN 0 ELSE FactorPoints[Head(names)] + SumFactorPoints(Tail(names))

Recorded(names) == {names[i] : i \in 1..Len(names)}

\* C2: on every record the call returns a result, in which a field that is
\* missing (key absent, or present and null) records no risk factor and adds
\* nothing to the score (the score is the points of the recorded factors).
C2_NeverFailsOnMissingData ==
    risk # NotCalled =>
        /\ risk.tag = "returned"
        /\ risk.value.risk_score = SumFactorPoints(risk.value.risk_factors)
        /\ \A g \in DOMAIN GroupFields :
               (\E f \in GroupFields[g] : ~IsVal(visit_data[f]))
                   => Recorded(risk.value.risk_factors) \cap GroupFactors[g] = {}

-----------------------------------------------------------------------------
(* Claims about get_blood_pressure_category (SpecPressure) *)

Systolic == visit_data["blood_pressure_systolic"]
Diastolic == visit_data["blood_pressure_diastolic"]

PressurePresent == Truthy(Systolic) /\ Truthy(Diastolic)

\* The first rule of the list that matches.
FirstMatchingRule(s, di) ==
    LET rules == << <<s < 120 /\ di < 80, "Normal">>,
                    <<s < 130 /\ di < 80, "Elevated">>,
                    <<s < 140 \/ di < 90, "High Blood Pressure Stage 1">>,
                    <<s < 180 \/ di < 120, "High Blood Pressure Stage 2">>,
                    <<TRUE, "Hypertensive Crisis">> >>
        first == CHOOSE i \in 1..5 : rules[i][1] /\ \A j \in 1..(i - 1) : ~rules[j][1]
    IN  rules[first][2]

Severity ==
    [c \in {"Normal", "Elevated", "High Blood Pressure Stage 1",
            "High Blood Pressure Stage 2", "Hypertensive Crisis"} |->
        CASE c = "Normal" -> 0
          [] c = "Elevated" -> 1
          [] c = "High Blood Pressure Stage 1" -> 2
          [] c = "High Blood Pressure Stage 2" -> 3
          [] c = "Hypertensive Crisis" -> 4]

C9_SeverityMonotone ==
    (bp_util # NotCalled /\ PressurePresent) =>
        /\ \A s2 \in SystolicReadings :
              (Truthy(s2) /\ s2.v >= Systolic.v) =>
                  Severity[get_blood_pressure_category(s2, Diastolic).v]
                      >= Severity[bp_util.value.v]
        /\ \A d2 \in DiastolicReadings :
              (Truthy(d2) /\ d2.v >= Diastolic.v) =>
                  Severity[get_blood_pressure_category(Systolic, d2).v]
                      >= Severity[bp_util.value.v]

C9_Witness ==
    /\ Systolic = Val(129) /\ Diastolic = Val(79)
    /\ bp_util = Returned(Val("Elevated"))
    /\ get_blood_pressure_category(Val(180), Diastolic) = Val("High Blood Pressure Stage 1")

\* C10: for a present pair, systolic >= 140 or diastolic >= 90 gives at least
\* High Blood Pressure Stage 2, and systolic >= 180 or diastolic >= 120 gives
\* Hypertensive Crisis, however low the other reading.
C10_SingleElevatedValueEscalates ==
    (bp_util # NotCalled /\ PressurePresent) =>
        /\ (Systolic.v >= 140 \/ Diastolic.v >= 90) =>
               Severity[bp_util.value.v] >= Severity["High Blood Pressure Stage 2"]
        /\ (Systolic.v >= 180 \/ Diastolic.v >= 120) =>
               bp_util.value = Val("Hypertensive Crisis")

-----------------------------------------------------------------------------
(* Claims about CorporateScreening.calculate_statistics (SpecScreening) *)

Doc == screening.doc

\* calculate_statistics has just run on the cohort in visits, which is not empty
ComputedOnCohort == screening.stats_current /\ visits # EmptyBag

\* number of records whose field is non-null
NonNull(rows, f) == Count(rows, LAMBDA v : IsVal(v[f]))

\* number of records whose field is non-null and at least n
AtLeast(rows, f, n) == Count(rows, LAMBDA v : IsVal(v[f]) /\ v[f].v >= n)

Smokers(rows) ==
    Count(rows, LAMBDA v : v["smoking_habits"] \in {Val("Occasionally"), Val("Daily")})

\* round(100 * numerator / denominator, 1), in tenths
Rate(numerator, denominator) == Round1(1000 * numerator, denominator)

BothPressuresNonNull(v) ==
    IsVal(v["blood_pressure_systolic"]) /\ IsVal(v["blood_pressure_diastolic"])

\* C4: the hypertension denominator is the number of records with both
\* systolic and diastolic non-null, the numerator the number of those with
\* systolic >= 140 or diastolic >= 90; a record with a systolic and no
\* diastolic is in neither.
C4_HypertensionOverBothReadings ==
    (ComputedOnCohort /\ Count(visits, BothPressuresNonNull) > 0) =>
        Doc.hypertension_prevalence =
            Val(Rate(Count(visits, LAMBDA v : /\ BothPressuresNonNull(v)
                                             /\ \/ v["blood_pressure_systolic"].v >= 140
                                                \/ v["blood_pressure_diastolic"].v >= 90),
                     Count(visits, BothPressuresNonNull)))

\* C5: after calculate_statistics on a non-empty cohort in which no record has
\* the field of a prevalence metric, that prevalence is absent, whatever the
\* screening held before the call.
C5_NoFieldNoPrevalence ==
    ComputedOnCohort =>
        /\ NonNull(visits, "bmi") = 0 => Doc.obesity_prevalence = None
        /\ (NonNull(visits, "blood_pressure_systolic") = 0
              /\ NonNull(visits, "blood_pressure_diastolic") = 0)
               => Doc.hypertension_prevalence = None
        /\ NonNull(visits, "blood_glucose") = 0 => Doc.diabetes_prevalence = None
        /\ NonNull(visits, "smoking_habits") = 0 => Doc.smoking_prevalence = None

\* a count that is zero: 0, or an integer field never set (stored as 0)
IsZero(x) == ~Truthy(x)

\* C6: after calculate_statistics on an empty cohort, from any prior state of
\* the screening, every prevalence is absent and every count is zero.
C6_EmptyCohortClearsStatistics ==
    (screening.stats_current /\ visits = EmptyBag) =>
        /\ \A m \in Metrics : Doc[m] = None
        /\ \A c \in {"total_participants", "male_participants", "female_participants",
                     "age_group_18_30", "age_group_31_50", "age_group_51_plus",
                     "high_risk_participants"} : IsZero(Doc[c])

\* what calculate_statistics leaves on a screening that was new before the call
FreshStatistics ==
    calculate_statistics(
        [NewScreening EXCEPT !.cost_per_participant = screening.doc.cost_per_participant],
        visits)

\* two documents hold the same statistics, a field that was never set counting
\* as 0
SameStatistics(a, b) ==
    \A f \in ScreeningFields : a[f] = b[f] \/ (IsZero(a[f]) /\ IsZero(b[f]))

\* a second call on the same cohort changes no field
SecondCallChangesNothing == calculate_statistics(screening.doc, visits) = screening.doc

\* C23: calling calculate_statistics again on the same cohort leaves the
\* statistics as the first call left them, and a second screening given the
\* same cohort ends with the same statistics.
C23_IdempotentAndDeterministic ==
    screening.stats_current =>
        (SecondCallChangesNothing /\ SameStatistics(screening.doc, FreshStatistics))

\* the factors of C26 a visit meets
FactorsMet(v) ==
    Cardinality({k \in 1..4 :
        CASE k = 1 -> IsVal(v["bmi"]) /\ v["bmi"].v >= 3000
          [] k = 2 -> /\ BothPressuresNonNull(v)
                      /\ \/ v["blood_pressure_systolic"].v >= 140
                         \/ v["blood_pressure_diastolic"].v >= 90
          [] k = 3 -> IsVal(v["blood_glucose"]) /\ v["blood_glucose"].v >= 140
          [] k = 4 -> v["smoking_habits"] \in {Val("Occasionally"), Val("Daily")}})

AgedBetween(low, high) ==
    Count(visits, LAMBDA v : IsVal(v["age"]) /\ low <= v["age"].v /\ v["age"].v <= high)

\* the prevalences the last call computed: those whose field some visit holds
JustComputed ==
    {f \in {"bmi", "blood_pressure_systolic", "blood_glucose", "smoking_habits"} :
        NonNull(visits, f) > 0}

PrevalenceOf ==
    [f \in {"bmi", "blood_pressure_systolic", "blood_glucose", "smoking_habits"} |->
        CASE f = "bmi" -> "obesity_prevalence"
          [] f = "blood_pressure_systolic" -> "hypertension_prevalence"
          [] f = "blood_glucose" -> "diabetes_prevalence"
          [] f = "smoking_habits" -> "smoking_prevalence"]

\* C26: immediately after calculate_statistics on a non-empty cohort,
\* high_risk_participants is the number of visits meeting at least two of the
\* four factors, so 0 <= high_risk_participants <= total_participants;
\* male_participants + female_participants <= total_participants; the three
\* age groups are disjoint and sum to at most total_participants; every
\* prevalence just computed lies in [0, 100].
C26_CountsWithinCohort ==
    ComputedOnCohort =>
        /\ Doc.high_risk_participants = Val(Count(visits, LAMBDA v : FactorsMet(v) >= 2))
        /\ 0 <= Doc.high_risk_participants.v
        /\ Doc.high_risk_participants.v <= Doc.total_participants.v
        /\ Doc.total_participants.v = Size(visits)
        /\ Doc.male_participants.v + Doc.female_participants.v <= Doc.total_participants.v
        /\ Doc.age_group_18_30.v = AgedBetween(18, 30)
        /\ Doc.age_group_31_50.v = AgedBetween(31, 50)
        /\ Doc.age_group_18_30.v + Doc.age_group_31_50.v + Doc.age_group_51_plus.v
               = Count(visits, LAMBDA v : IsVal(v["age"]) /\ v["age"].v >= 18)
        /\ Doc.age_group_18_30.v + Doc.age_group_31_50.v + Doc.age_group_51_plus.v
               <= Doc.total_participants.v
        /\ \A f \in JustComputed :
              /\ IsVal(Doc[PrevalenceOf[f]])
              /\ 0 <= Doc[PrevalenceOf[f]].v
              /\ Doc[PrevalenceOf[f]].v <= 1000

C26_Witness ==
    /\ ComputedOnCohort
    /\ Size(visits) = 3
    /\ Doc.high_risk_participants = Val(2)
    /\ Doc.male_participants = Val(1) /\ Doc.female_participants = Val(1)
    /\ Doc.age_group_18_30 = Val(1) /\ Doc.age_group_51_plus = Val(1)
    /\ Doc.obesity_prevalence = Val(1000)

-----------------------------------------------------------------------------
(* Claims about get_corporate_wellness_summary (SpecDashboard) *)

\* the screenings with participants > 0
Counted == {i \in 1..Len(screenings) :
               IsVal(screenings[i].total_participants)
               /\ screenings[i].total_participants.v > 0}

\* sum of participants_i over the screenings in S
RECURSIVE SumOfParticipants(_)
SumOfParticipants(S) ==
    IF S = {} THEN 0
    ELSE LET i == CHOOSE x \in S : TRUE
         IN  screenings[i].total_participants.v + SumOfParticipants(S \ {i})

\* sum of metric_i * participants_i over the screenings in S
RECURSIVE SumOfWeighted(_, _)
SumOfWeighted(S, m) ==
    IF S = {} THEN 0
    ELSE LET i == CHOOSE x \in S : TRUE
         IN  screenings[i][m].v * screenings[i].total_participants.v
             + SumOfWeighted(S \ {i}, m)

ExampleScreenings ==
    /\ Len(screenings) = 2
    /\ screenings[1].total_participants = Val(100) /\ screenings[1].obesity_prevalence = Val(200)
    /\ screenings[2].total_participants = Val(50) /\ screenings[2].obesity_prevalence = Val(400)

\* C7: whenever get_corporate_wellness_summary returns for a non-empty list,
\* each average is round(sum(metric_i * participants_i) / sum(participants_i), 1)
\* over exactly the screenings with participants_i > 0, and no average is
\* produced when no screening has participants; (20%, 100) and (40%, 50) give 26.7.
C7_WeightedAverage ==
    (summary.tag = "returned" /\ screenings # <<>>) =>
        /\ Counted = {} => summary.value.health_metrics = <<>>
        /\ Counted # {} =>
               \A m \in Metrics :
                   summary.value.health_metrics[m] =
                       Round1(SumOfWeighted(Counted, m), SumOfParticipants(Counted))
        /\ ExampleScreenings => summary.value.health_metrics["obesity_prevalence"] = 267

C7_Witness ==
    /\ ExampleScreenings
    /\ summary.tag = "returned"
    /\ summary.value.health_metrics["obesity_prevalence"] = 267

\* the counted screenings that hold the metric m
HoldingMetric(m) == {i \in Counted : IsVal(screenings[i][m])}

\* C25: get_corporate_wellness_summary returns for every list of completed
\* screenings, those with a null prevalence or a null total_participants
\* included, and the weighted average of a metric is taken over the screenings
\* that hold it, so that a screening lacking the metric does not pull the
\* average towards 0.
C25_NullsTolerated ==
    summary # NotCalled =>
        /\ summary.tag = "returned"
        /\ \A m \in Metrics :
              HoldingMetric(m) # {} =>
                  summary.value.health_metrics[m] =
                      Round1(SumOfWeighted(HoldingMetric(m), m), SumOfParticipants(HoldingMetric(m)))

-----------------------------------------------------------------------------
(* Claims about get_bmi_category (SpecCategories) *)

Bmi == visit_data["bmi"]

BmiCalls == {"get_bmi_category", "Visit.get_bmi_category"}

\* the band of a bmi (hundredths), low boundary included
BmiBand(b) ==
    CASE b < 1850 -> "Underweight"
      [] 1850 <= b /\ b < 2500 -> "Healthy Weight"
      [] 2500 <= b /\ b < 3000 -> "Overweight"
      [] 3000 <= b /\ b < 3500 -> "Obesity Stage 1"
      [] 3500 <= b /\ b < 4000 -> "Obesity Stage 2"
      [] 4000 <= b -> "Morbidly Obese"

BmiRank ==
    [c \in {"Underweight", "Healthy Weight", "Overweight", "Obesity Stage 1",
            "Obesity Stage 2", "Morbidly Obese"} |->
        CASE c = "Underweight" -> 0
          [] c = "Healthy Weight" -> 1
          [] c = "Overweight" -> 2
          [] c = "Obesity Stage 1" -> 3
          [] c = "Obesity Stage 2" -> 4
          [] c = "Morbidly Obese" -> 5]

\* what C11 says of a bmi inside the range: each implementation that was
\* called returned the band's category, no higher bmi of the grid has a lower
\* category, and the two agree
BmiStepFunction ==
    /\ \A c \in BmiCalls :
          results[c] # NotCalled =>
              /\ results[c].value = Val(BmiBand(Bmi.v))
              /\ \A b2 \in BmiReadings :
                    (IsVal(b2) /\ b2.v >= Bmi.v /\ b2.v < 10000) =>
                        /\ IsVal(get_bmi_category(b2))
                        /\ BmiRank[get_bmi_category(b2).v] >= BmiRank[results[c].value.v]
    /\ (\A c \in BmiCalls : results[c] # NotCalled) =>
           results["get_bmi_category"] = results["Visit.get_bmi_category"]

\* C11 as worded: for every bmi in [0, 100)
C11_AsWorded == (IsVal(Bmi) /\ 0 <= Bmi.v /\ Bmi.v < 10000) => BmiStepFunction

\* C11 amended: for every bmi in (0, 100) both get_bmi_category implementations
\* return a category, as a monotonic step function with inclusive-low
\* boundaries at 18.5, 25, 30, 35 and 40, and the two agree on every input.
C11_BmiStepFunction ==
    /\ (IsVal(Bmi) /\ 0 < Bmi.v /\ Bmi.v < 10000) => BmiStepFunction
    /\ (\A c \in BmiCalls : results[c] # NotCalled) =>
           results["get_bmi_category"] = results["Visit.get_bmi_category"]

C11_Witness ==
    /\ Bmi = Val(1850)
    /\ results["get_bmi_category"] = Returned(Val("Healthy Weight"))
    /\ results["Visit.get_bmi_category"] = Returned(Val("Healthy Weight"))

\* C12 as worded: none whenever bmi is absent, zero or negative; a named
\* category only for bmi > 0.
C12_AsWorded ==
    results["get_bmi_category"] # NotCalled =>
        (IsVal(results["get_bmi_category"].value) <=> (IsVal(Bmi) /\ Bmi.v > 0))

\* C12 amended: get_bmi_category returns none exactly when bmi is absent or
\* zero; it returns a named category for every other bmi, Underweight for a
\* negative one.
C12_NoneForAbsentOrZero ==
    results["get_bmi_category"] # NotCalled =>
        /\ IsVal(results["get_bmi_category"].value) <=> (IsVal(Bmi) /\ Bmi.v # 0)
        /\ (IsVal(Bmi) /\ Bmi.v < 0) => results["get_bmi_category"].value = Val("Underweight")

C12_Witness ==
    /\ Bmi = Val(0)
    /\ results["get_bmi_category"] = Returned(None)

-----------------------------------------------------------------------------
(* Claims about get_glucose_category (SpecCategories) *)

Glucose == visit_data["blood_glucose"]

GlucoseUtil == results["get_glucose_category"]
GlucoseVisit == results["Visit.get_glucose_category"]

\* the band a label names
GlucoseBandOf ==
    [l \in {"Low", "Normal (Fasting)", "Prediabetic (Fasting)", "Diabetic (Fasting)",
            "Severely Elevated", "Normal", "Prediabetic", "Diabetic"} |->
        CASE l = "Low" -> "low"
          [] l \in {"Normal (Fasting)", "Normal"} -> "normal"
          [] l \in {"Prediabetic (Fasting)", "Prediabetic"} -> "prediabetic"
          [] l \in {"Diabetic (Fasting)", "Diabetic"} -> "diabetic"
          [] l = "Severely Elevated" -> "severely elevated"]

UtilBand(g) ==
    CASE g < 70 -> "low"
      [] 70 <= g /\ g < 100 -> "normal"
      [] 100 <= g /\ g < 126 -> "prediabetic"
      [] 126 <= g /\ g < 200 -> "diabetic"
      [] 200 <= g -> "severely elevated"

VisitBand(g) ==
    CASE g < 70 -> "low"
      [] 70 <= g /\ g < 100 -> "normal"
      [] 100 <= g /\ g < 140 -> "prediabetic"
      [] 140 <= g -> "diabetic"

\* C13: each glucose classifier keeps its own bands (utility <70, <100, <126,
\* <200, else; Visit <70, <100, <140, else); they agree on the band below 100,
\* differ on [126, 140) (diabetic against prediabetic), only the utility
\* reports Severely Elevated, and both return none for absent glucose.
C13_DistinctGlucoseBands ==
    /\ GlucoseUtil # NotCalled =>
          IF Truthy(Glucose)
          THEN GlucoseUtil.value \in {Val(l) : l \in DOMAIN GlucoseBandOf}
               /\ GlucoseBandOf[GlucoseUtil.value.v] = UtilBand(Glucose.v)
          ELSE GlucoseUtil.value = None
    /\ GlucoseVisit # NotCalled =>
          IF Truthy(Glucose)
          THEN GlucoseVisit.value \in {Val(l) : l \in DOMAIN GlucoseBandOf}
               /\ GlucoseBandOf[GlucoseVisit.value.v] = VisitBand(Glucose.v)
               /\ GlucoseVisit.value # Val("Severely Elevated")
          ELSE GlucoseVisit.value = None
    /\ (GlucoseUtil # NotCalled /\ GlucoseVisit # NotCalled /\ Truthy(Glucose)) =>
          /\ Glucose.v < 100 =>
                GlucoseBandOf[GlucoseUtil.value.v] = GlucoseBandOf[GlucoseVisit.value.v]
          /\ (126 <= Glucose.v /\ Glucose.v < 140) =>
                /\ GlucoseBandOf[GlucoseUtil.value.v] = "diabetic"
                /\ GlucoseBandOf[GlucoseVisit.value.v] = "prediabetic"

C13_Witness ==
    /\ Glucose = Val(130)
    /\ GlucoseUtil = Returned(Val("Diabetic (Fasting)"))
    /\ GlucoseVisit = Returned(Val("Prediabetic"))

-----------------------------------------------------------------------------
(* Claims about the cohort diabetes rates (SpecClinic) *)

ClinicSummary == results["Clinic.get_health_metrics_summary"]

\* a clinic rate (units of 0.00001) and a screening prevalence (tenths) are the
\* same rate when the first rounds to the second
SameRate(rate, prevalence) ==
    /\ IsVal(rate) /\ IsVal(prevalence)
    /\ rate.v - 10000 * prevalence.v <= 5000
    /\ 10000 * prevalence.v - rate.v <= 5000

\* C14: the screening's diabetes_prevalence and the clinic's diabetes_rate both
\* count a record as diabetic exactly when glucose >= 140, so on the same
\* visits, some of them with a glucose value, the two give the same rate.
C14_DiabetesRateAt140 ==
    (screening.stats_current /\ ClinicSummary # NotCalled /\ Count(visits, HasGlucose) > 0) =>
        /\ screening.doc.diabetes_prevalence =
               Val(Percentage(Count(visits, IsDiabetic), Count(visits, HasGlucose)))
        /\ ClinicSummary.value.diabetes_rate =
               SqlRate(Count(visits, IsDiabetic), Count(visits, HasGlucose))
        /\ SameRate(ClinicSummary.value.diabetes_rate, screening.doc.diabetes_prevalence)

-----------------------------------------------------------------------------
(* Claims about calculate_metabolic_syndrome_criteria (SpecMetabolic) *)

Metabolic == results["calculate_metabolic_syndrome_criteria"]

\* a field holds a value other than zero or the empty string
Measured(f) == IsVal(visit_data[f]) /\ visit_data[f].v # 0
Named(f) == IsVal(visit_data[f]) /\ visit_data[f].v # ""

\* the waist condition as C16 words it: 35 for every gender but Male, and for
\* no gender
WaistMetAsWorded ==
    /\ Measured("waist_circumference")
    /\ visit_data["waist_circumference"].v >= (IF visit_data["gender"] = Val("Male") THEN 40 ELSE 35)

\* the waist condition with the gender required
WaistMet == Named("gender") /\ WaistMetAsWorded

PressureMet ==
    /\ Measured("blood_pressure_systolic") /\ Measured("blood_pressure_diastolic")
    /\ \/ visit_data["blood_pressure_systolic"].v >= 130
       \/ visit_data["blood_pressure_diastolic"].v >= 85

GlucoseMet == Measured("blood_glucose") /\ visit_data["blood_glucose"].v >= 100

Holding(conditions) == Cardinality({i \in DOMAIN conditions : conditions[i]})

OnlyGlucose110 == visit_data = [NoData EXCEPT !["blood_glucose"] = Val(110)]

\* C15: criteria_met is in 0..3 and equals the length of criteria_details;
\* has_metabolic_syndrome is true exactly when the waist, blood pressure and
\* glucose criteria are all met; a record with only glucose = 110 gives
\* criteria_met = 1 and has_metabolic_syndrome = false.
C15_AllThreeCriteria ==
    Metabolic # NotCalled =>
        /\ Metabolic.tag = "returned"
        /\ Metabolic.value.criteria_met \in 0..3
        /\ Metabolic.value.criteria_met = Len(Metabolic.value.criteria_details)
        /\ Metabolic.value.has_metabolic_syndrome <=> (WaistMet /\ PressureMet /\ GlucoseMet)
        /\ OnlyGlucose110 =>
              /\ Metabolic.value.criteria_met = 1
              /\ Metabolic.value.has_metabolic_syndrome = FALSE

C15_Witness ==
    /\ Metabolic # NotCalled
    /\ Metabolic.value.has_metabolic_syndrome
    /\ visit_data["gender"] = Val("Female")
    /\ visit_data["waist_circumference"] = Val(35)

\* C16 as worded: criteria_met is the number of conditions that hold, the
\* waist threshold being 35 for any gender but Male and for no gender.
C16_AsWorded ==
    Metabolic # NotCalled =>
        Metabolic.value.criteria_met = Holding(<<WaistMetAsWorded, PressureMet, GlucoseMet>>)

\* C16 amended: criteria_met is the number of these conditions that hold:
\* waist and gender both present and waist >= threshold (40 if gender is Male,
\* 35 for any other gender value); systolic and diastolic present and
\* (systolic >= 130 or diastolic >= 85); glucose present and glucose >= 100.
\* With no gender the waist is not counted.
C16_CriteriaCounted ==
    Metabolic # NotCalled =>
        /\ Metabolic.value.criteria_met = Holding(<<WaistMet, PressureMet, GlucoseMet>>)
        /\ ~Named("gender") => "Waist circumference >=35 inches" \notin
                                   {Metabolic.value.criteria_details[i] :
                                        i \in DOMAIN Metabolic.value.criteria_details}

C16_Witness ==
    /\ Metabolic # NotCalled
    /\ visit_data["gender"] = Absent
    /\ visit_data["waist_circumference"] = Val(36)
    /\ visit_data["blood_glucose"] = Val(100)
    /\ Metabolic.value.criteria_met = 1

-----------------------------------------------------------------------------
(* Claims about generate_health_recommendations (SpecRecommendations) *)

Recommendations == results["generate_health_recommendations"]

\* the position of each category in the fixed order; the two diabetes
\* categories belong to one block
BlockOf ==
    [c \in {"Weight Management", "Cardiovascular Health", "Diabetes Management",
            "Diabetes Prevention", "Smoking Cessation", "Physical Activity",
            "Stress Management", "Sleep Health"} |->
        CASE c = "Weight Management" -> 1
          [] c = "Cardiovascular Health" -> 2
          [] c \in {"Diabetes Management", "Diabetes Prevention"} -> 3
          [] c = "Smoking Cessation" -> 4
          [] c = "Physical Activity" -> 5
          [] c = "Stress Management" -> 6
          [] c = "Sleep Health" -> 7]

\* the category and priority a block's rule gives, or <<>> when no rule fires
\* (present(f): the test the block puts on a field before its thresholds)
WeightRule(present(_)) ==
    IF ~present("bmi") THEN <<>>
    ELSE IF visit_data["bmi"].v >= 3000 THEN <<"Weight Management", "High">>
    ELSE IF visit_data["bmi"].v >= 2500 THEN <<"Weight Management", "Medium">>
    ELSE IF visit_data["bmi"].v < 1850 THEN <<"Weight Management", "Medium">>
    ELSE <<>>

PressureRule ==
    IF ~(Measured("blood_pressure_systolic") /\ Measured("blood_pressure_diastolic")) THEN <<>>
    ELSE IF visit_data["blood_pressure_systolic"].v >= 140
            \/ visit_data["blood_pressure_diastolic"].v >= 90
    THEN <<"Cardiovascular Health", "High">>
    ELSE IF visit_data["blood_pressure_systolic"].v >= 130
            \/ visit_data["blood_pressure_diastolic"].v >= 80
    THEN <<"Cardiovascular Health", "Medium">>
    ELSE <<>>

GlucoseRule ==
    IF ~IsVal(visit_data["blood_glucose"]) THEN <<>>
    ELSE IF visit_data["blood_glucose"].v >= 126 THEN <<"Diabetes Management", "High">>
    ELSE IF visit_data["blood_glucose"].v >= 100 THEN <<"Diabetes Prevention", "Medium">>
    ELSE <<>>

SmokingRule ==
    IF visit_data["smoking_habits"] \in {Val("Daily"), Val("Occasionally")}
    THEN <<"Smoking Cessation", "High">> ELSE <<>>

ActivityRule ==
    IF visit_data["exercise_frequency"] \in {Val("None"), Val("Rarely")}
    THEN <<"Physical Activity", "Medium">> ELSE <<>>

StressRule ==
    IF visit_data["stress_level"] = Val("High (7-10)")
    THEN <<"Stress Management", "Medium">> ELSE <<>>

SleepRule(present(_)) ==
    IF present("sleep_hours") /\ visit_data["sleep_hours"].v < 70
    THEN <<"Sleep Health", "Low">> ELSE <<>>

HasValue(f) == IsVal(visit_data[f])

\* the rules that fire, in block order
FiredRules(present(_)) ==
    SelectSeq(<<WeightRule(present), PressureRule, GlucoseRule, SmokingRule, ActivityRule,
                StressRule, SleepRule(present)>>,
              LAMBDA rule : rule # <<>>)

\* the returned list names exactly the rules of fired, with their priorities,
\* and its blocks are in strictly increasing order
ReturnsRules(fired) ==
    /\ Recommendations.tag = "returned"
    /\ Len(Recommendations.value) = Len(fired)
    /\ \A i \in DOMAIN fired :
          /\ Recommendations.value[i].category = fired[i][1]
          /\ Recommendations.value[i].priority = fired[i][2]
    /\ \A i, j \in DOMAIN Recommendations.value :
          i < j => BlockOf[Recommendations.value[i].category]
                       < BlockOf[Recommendations.value[j].category]

\* C17 as worded: the entry of a block is present exactly when its rule fires
\* on the value the record holds (bmi < 18.5 and sleep_hours < 7 for every
\* value, zero included).
C17_AsWorded == Recommendations # NotCalled => ReturnsRules(FiredRules(HasValue))

\* C17 amended: generate_health_recommendations returns at most one entry per
\* block, in the fixed order Weight Management, Cardiovascular Health, Diabetes
\* Management/Prevention, Smoking Cessation, Physical Activity, Stress
\* Management, Sleep Health, an entry being present exactly when its rule
\* fires, with the stated priority; the bmi and sleep_hours rules fire only for
\* a non-zero value, the blood pressure rules only when both readings are
\* present and non-zero.
C17_OneEntryPerFiredRule == Recommendations # NotCalled => ReturnsRules(FiredRules(Measured))

C17_Witness ==
    /\ Recommendations # NotCalled
    /\ Len(Recommendations.value) = 7
    /\ Recommendations.value[1].priority = "Medium"
    /\ Recommendations.value[2].priority = "High"
    /\ Recommendations.value[7].priority = "Low"
    /\ visit_data["bmi"] = Val(1849)

-----------------------------------------------------------------------------
(* Claims about calculate_wellness_wheel_scores (SpecWellness) *)

Wellness == results["calculate_wellness_wheel_scores"]

Field(f) == visit_data[f]

\* the score C18's table gives a literal, default for a literal not listed
Listed(table, f, default) ==
    IF \E row \in table : Field(f) = Val(row[1])
    THEN (CHOOSE row \in table : Field(f) = Val(row[1]))[2]
    ELSE default

ExerciseTable ==
    {<<"None", 1>>, <<"Rarely", 3>>, <<"1-2 times/week", 5>>, <<"3-4 times/week", 8>>,
     <<"5+ times/week", 10>>}
StressTable == {<<"Low (1-3)", 9>>, <<"Moderate (4-6)", 5>>, <<"High (7-10)", 2>>}
SmokingTable == {<<"Never", 10>>, <<"Former Smoker", 7>>, <<"Occasionally", 3>>, <<"Daily", 1>>}
AlcoholTable ==
    {<<"None", 8>>, <<"Occasionally", 9>>, <<"Social Drinking", 7>>, <<"Binge Drinking", 3>>,
     <<"Heavy Drinking", 1>>}

\* 8 for hours in [7, 9], 6 for hours in [6, 7) or (9, 10], else 3
SleepTable(hours) ==
    IF 70 <= hours /\ hours <= 90 THEN 8
    ELSE IF (60 <= hours /\ hours < 70) \/ (90 < hours /\ hours <= 100) THEN 6
    ELSE 3

SleepAssumed == IF Field("sleep_hours") = Absent THEN 70 ELSE Field("sleep_hours").v

WellnessExample ==
    visit_data = [NoData EXCEPT !["exercise_frequency"] = Val("5+ times/week"),
                                !["sleep_hours"] = Val(80),
                                !["stress_level"] = Val("Low (1-3)"),
                                !["smoking_habits"] = Val("Never"),
                                !["alcohol_consumption"] = Val("None")]

\* C18: whenever calculate_wellness_wheel_scores returns, the five dimension
\* scores come from the fixed tables (7 hours assumed when sleep_hours is
\* absent), overall is the mean of exactly those five rounded to one decimal,
\* and every score lies in 1..10; the example record scores 10, 8, 9, 10, 8
\* and overall 9.0.
C18_WellnessWheelTables ==
    (Wellness # NotCalled /\ Wellness.tag = "returned") =>
        LET scores == Wellness.value
        IN  /\ scores.exercise = Listed(ExerciseTable, "exercise_frequency", 5)
            /\ scores.sleep = SleepTable(SleepAssumed)
            /\ scores.stress = Listed(StressTable, "stress_level", 5)
            /\ scores.smoking = Listed(SmokingTable, "smoking_habits", 10)
            /\ scores.alcohol = Listed(AlcoholTable, "alcohol_consumption", 7)
            /\ 5 * scores.overall = 10 * (scores.exercise + scores.sleep + scores.stress
                                              + scores.smoking + scores.alcohol)
            /\ \A k \in {"exercise", "sleep", "stress", "smoking", "alcohol"} :
                  scores[k] \in 1..10
            /\ scores.overall \in 10..100
            /\ WellnessExample =>
                  scores = [exercise |-> 10, sleep |-> 8, stress |-> 9, smoking |-> 10,
                            alcohol |-> 8, overall |-> 90]

C18_Witness ==
    /\ Wellness # NotCalled
    /\ Wellness.tag = "returned"
    /\ Field("sleep_hours") = Val(91)
    /\ Wellness.value.sleep = 6
    /\ Wellness.value.overall = 34

\* a lifestyle field that is absent, null, or a literal no table lists
Unrecognized(f, table) == ~\E row \in table : Field(f) = Val(row[1])

\* C19: calculate_wellness_wheel_scores never throws; for every record in which
\* each lifestyle field is absent, null or an unrecognized literal it returns
\* the defaults exercise 5, sleep 8 (as for 7 hours), stress 5, smoking 10,
\* alcohol 7, plus overall.
C19_NeverThrows ==
    Wellness # NotCalled =>
        /\ Wellness.tag = "returned"
        /\ ( /\ Unrecognized("exercise_frequency", ExerciseTable)
             /\ Field("sleep_hours") \in {Absent, None}
             /\ Unrecognized("stress_level", StressTable)
             /\ Unrecognized("smoking_habits", SmokingTable)
             /\ Unrecognized("alcohol_consumption", AlcoholTable) ) =>
               Wellness.value = [exercise |-> 5, sleep |-> 8, stress |-> 5, smoking |-> 10,
                                 alcohol |-> 7, overall |-> 70]

\* the score listed for each level of the exercise_frequency enum
ExerciseLevelScore ==
    [k \in ExerciseFrequencyOptions |->
        CASE k = "None" -> 1
          [] k = "Rarely" -> 3
          [] k = "1-2 times per week" -> 5
          [] k = "3-4 times per week" -> 8
          [] k = "5+ times per week" -> 10]

\* C20: for each exercise_frequency value of the data-model enum,
\* calculate_wellness_wheel_scores assigns the exercise score listed for that
\* level (1, 3, 5, 8, 10), not the default for unrecognized values.
C20_EnumValuesScored ==
    (Wellness # NotCalled /\ Wellness.tag = "returned") =>
        \A k \in ExerciseFrequencyOptions :
            Field("exercise_frequency") = Val(k) =>
                Wellness.value.exercise = ExerciseLevelScore[k]

-----------------------------------------------------------------------------
(* Claims about the executive summaries (SpecSummaries) *)

Submitted == screening.doc.status = Val("Completed")

\* the sentences of the screening's summary, by name
ScreeningSentences ==
    [i \in DOMAIN screening.doc.executive_summary.v |->
        screening.doc.executive_summary.v[i].sentence]

HasSentence(name) == \E i \in DOMAIN ScreeningSentences : ScreeningSentences[i] = name

SentenceRank ==
    [n \in {"participation", "gender distribution", "obesity", "hypertension", "diabetes",
            "smoking", "high risk", "recommended interventions"} |->
        CASE n = "participation" -> 1
          [] n = "gender distribution" -> 2
          [] n = "obesity" -> 3
          [] n = "hypertension" -> 4
          [] n = "diabetes" -> 5
          [] n = "smoking" -> 6
          [] n = "high risk" -> 7
          [] n = "recommended interventions" -> 8]

RateOfSentence ==
    [n \in {"obesity", "hypertension", "diabetes", "smoking"} |->
        CASE n = "obesity" -> "obesity_prevalence"
          [] n = "hypertension" -> "hypertension_prevalence"
          [] n = "diabetes" -> "diabetes_prevalence"
          [] n = "smoking" -> "smoking_prevalence"]

\* C21: for a non-empty cohort the sentences of the screening's summary are in
\* the order participation, gender distribution, obesity, hypertension,
\* diabetes, smoking, high risk, recommended interventions, and the sentence of
\* each prevalence is there exactly when that rate is present on the
\* screening, a rate of 0.0 included.
C21_SentencePerPresentRate ==
    (Submitted /\ visits # EmptyBag) =>
        /\ \A i, k \in DOMAIN ScreeningSentences :
              i < k => SentenceRank[ScreeningSentences[i]] < SentenceRank[ScreeningSentences[k]]
        /\ \A n \in DOMAIN RateOfSentence :
              HasSentence(n) <=> IsVal(screening.doc[RateOfSentence[n]])

ExecutiveSummary == results["generate_executive_summary"]

\* the recommendations of a summary: those joined into its last sentence
RecommendationsOf(sentences, name) ==
    IF \E i \in DOMAIN sentences : sentences[i].sentence = name
    THEN sentences[CHOOSE i \in DOMAIN sentences : sentences[i].sentence = name].recommendations
    ELSE <<>>

Recommends(sentences, name, text) ==
    \E i \in DOMAIN RecommendationsOf(sentences, name) :
        RecommendationsOf(sentences, name)[i] = text

RateOver(rate, threshold) == IsVal(screening.doc[rate]) /\ screening.doc[rate].v > threshold

\* C22: the summary of a screening with visits recommends weight management
\* exactly when obesity_prevalence > 25, blood-pressure monitoring exactly when
\* hypertension_prevalence > 20 and smoking cessation exactly when
\* smoking_prevalence > 10; the dashboard summary, when it returns, recommends
\* weight management exactly when obesity_rate > 30 and cardiovascular
\* monitoring exactly when hypertension_rate > 25; a rate equal to its
\* threshold recommends nothing, and the recommendations sentence is there
\* exactly when a recommendation fired.
C22_StrictThresholds ==
    /\ (Submitted /\ visits # EmptyBag) =>
          LET sentences == screening.doc.executive_summary.v
              name == "recommended interventions"
          IN  /\ Recommends(sentences, name,
                     "Implement weight management programs and nutritional counseling.")
                   <=> RateOver("obesity_prevalence", 250)
              /\ Recommends(sentences, name,
                     "Regular blood pressure monitoring and cardiovascular health initiatives.")
                   <=> RateOver("hypertension_prevalence", 200)
              /\ Recommends(sentences, name,
                     "Smoking cessation programs and stress management alternatives.")
                   <=> RateOver("smoking_prevalence", 100)
              /\ HasSentence(name) <=>
                     \/ RateOver("obesity_prevalence", 250)
                     \/ RateOver("hypertension_prevalence", 200)
                     \/ RateOver("smoking_prevalence", 100)
              /\ Len(RecommendationsOf(sentences, name)) <= 3
    /\ ExecutiveSummary.tag = "returned" =>
          LET sentences == ExecutiveSummary.value.executive_summary
              metrics == ExecutiveSummary.value.key_metrics
              name == "priority recommendations"
          IN  /\ Recommends(sentences, name,
                     "Implement comprehensive weight management programs")
                   <=> metrics.obesity_rate > 300
              /\ Recommends(sentences, name,
                     "Expand cardiovascular health monitoring and interventions")
                   <=> metrics.hypertension_rate > 250
              /\ (\E i \in DOMAIN sentences : sentences[i].sentence = name)
                   <=> (metrics.obesity_rate > 300 \/ metrics.hypertension_rate > 250)
              /\ Len(RecommendationsOf(sentences, name)) <= 2

C22_Witness ==
    /\ Submitted
    /\ screening.doc.obesity_prevalence = Val(250)
    /\ screening.doc.hypertension_prevalence = Val(225)
    /\ screening.doc.smoking_prevalence = Val(100)
    /\ RecommendationsOf(screening.doc.executive_summary.v, "recommended interventions")
           = <<"Regular blood pressure monitoring and cardiovascular health initiatives.">>
    /\ ExecutiveSummary.tag = "returned"
    /\ ExecutiveSummary.value.key_metrics.obesity_rate = 400
    /\ ExecutiveSummary.value.key_metrics.hypertension_rate = 250
    /\ RecommendationsOf(ExecutiveSummary.value.executive_summary, "priority recommendations")
           = <<"Implement comprehensive weight management programs">>

\* visits of the range with a BMI, and with both blood pressure readings
WindowWithBmi == {v \in BagToSet(window) : IsVal(v.bmi)}
WindowWithPressure ==
    {v \in BagToSet(window) :
        IsVal(v.blood_pressure_systolic) /\ IsVal(v.blood_pressure_diastolic)}

\* C24: whenever the range has no visit with a BMI, or none with both blood
\* pressure values, the dashboard summary (its screenings being summarised
\* without error) still returns a result, leaves out the sentence and the
\* recommendation of that rate, and reports the rate as 0 in key_metrics.
C24_DegradesOnMissingData ==
    ( /\ ExecutiveSummary # NotCalled
      /\ get_corporate_wellness_summary(screenings).tag = "returned"
      /\ (WindowWithBmi = {} \/ WindowWithPressure = {}) ) =>
        /\ ExecutiveSummary.tag = "returned"
        /\ WindowWithBmi = {} =>
              /\ ExecutiveSummary.value.key_metrics.obesity_rate = 0
              /\ ~\E i \in DOMAIN ExecutiveSummary.value.executive_summary :
                    ExecutiveSummary.value.executive_summary[i].sentence = "obesity"
        /\ WindowWithPressure = {} =>
              /\ ExecutiveSummary.value.key_metrics.hypertension_rate = 0
              /\ ~\E i \in DOMAIN ExecutiveSummary.value.executive_summary :
                    ExecutiveSummary.value.executive_summary[i].sentence = "hypertension"

-----------------------------------------------------------------------------
(* Claims about Visit.before_save (SpecVisit) *)

Saved == results["Visit.before_save"].tag = "returned"

Positive(x) == IsVal(x) /\ x.v > 0

\* C27: after every Visit.before_save that completes, in any sequence of
\* edits and saves, bmi is weight / (height / 100) ^ 2 rounded to two
\* decimals when height and weight are both present and positive, and bmi is
\* absent otherwise: a BMI computed from values that were cleared later does
\* not remain.
C27_BmiFollowsHeightAndWeight ==
    Saved =>
        IF Positive(visit_data["height"]) /\ Positive(visit_data["weight"])
        THEN visit_data["bmi"]
                 = Val(Round1(1000000 * visit_data["weight"].v,
                              visit_data["height"].v * visit_data["height"].v))
        ELSE visit_data["bmi"] = None

=============================================================================
